---------------------------- MODULE Spec2Model ----------------------------
(***************************************************************************)
(* Model of the metadata aggregation engine of shelfr:                     *)
(*   src/src/shelfr/metadata/aggregator.py   (MetadataAggregator)          *)
(*   src/src/shelfr/metadata/providers/types.py (ProviderResult, FieldName)*)
(*   src/src/shelfr/metadata/providers/mock.py  (MockProvider)             *)
(*                                                                         *)
(* Encodings.                                                              *)
(*   - A Python value is a record [t, v]: t is the type tag ("none",       *)
(*     "str", "list", "other") and v the sequence of its characters or     *)
(*     elements, so that len() is Len(v) and == is record equality.        *)
(*   - A confidence is the float times ten (1.0 is 10, 0.5 is 5).          *)
(*   - An insertion-ordered dict whose order the code observes (a          *)
(*     result's fields, the merge candidates) is a sequence of entries;    *)
(*     a dict only compared or looked up (errors, sources, the merged      *)
(*     fields) is a function.                                              *)
(*   - An optional text (ProviderResult.error) is <<>> for None and <<s>>  *)
(*     for the string s.                                                   *)
(***************************************************************************)
EXTENDS Integers, Sequences, FiniteSets, TLC

(***************************************************************************)
(* Bounds of the model.                                                    *)
(***************************************************************************)
\* Longest explicit `providers` argument of fetch_all.
MaxProviders == 2
\* Number of successive fetch_all calls on the same aggregator.
MaxCalls == 2
\* Number of set_response, set_error and reset calls in ReconfigSpec.
MaxUpdates == 2
\* Number of successive fetch_all calls in LiveSpec.
LiveCalls == 1
\* Largest number of provider results handed to _merge in MergeSpec.
MaxResults == 3
\* Number of set_field calls on one ProviderResult in ResultSpec.
MaxSets == 3
\* Largest max_attempts given to retry_with_backoff, and the number of
\* calls of the wrapped function whose outcome is scripted, in RetrySpec
MaxAttempts == 3

(***************************************************************************)
(* Python values.                                                          *)
(***************************************************************************)
NoneV == [t |-> "none", v |-> <<>>]
Str(s) == [t |-> "str", v |-> s]
Lst(s) == [t |-> "list", v |-> s]
Oth(s) == [t |-> "other", v |-> s]
Flt(s) == [t |-> "float", v |-> s]
\* float("nan")
NaN == Flt(<<"nan">>)

\* a == b on Python values: equal values compare equal, except that a NaN
\* compares unequal to every value, itself included.
PyEq(a, b) == a = b /\ a # NaN

\* An optional text: None, or a string.
NoText == <<>>
Text(s) == <<s>>
\* Python truthiness of an optional text: None and "" are falsy.
Truthy(e) == e # NoText /\ e[1] # ""

\* confidence.get(field_name, 1.0), set_field(..., confidence=1.0)
DefaultConfidence == 10

\* FieldName: the canonical vocabulary; ALL_FIELDS = set(get_args(FieldName)).
FieldName ==
  { "title", "subtitle", "authors", "narrators", "publisher", "language",
    "release_date", "series_name", "series_position", "genres", "summary",
    "description", "cover_url", "format_type", "literature_type", "is_adult",
    "copyright", "rating", "isbn", "chapters", "duration_seconds", "codec",
    "bitrate", "channels", "container" }

ALL_FIELDS == FieldName

(***************************************************************************)
(* Generic helpers on sequences and functions.                             *)
(***************************************************************************)
Range(s) == { s[i] : i \in DOMAIN s }

\* d[k] = v on a dict held as a function.
DictSet(d, k, v) == [x \in (DOMAIN d) \cup {k} |-> IF x = k THEN v ELSE d[x]]

EmptyDict == [x \in {} |-> NoneV]

(***************************************************************************)
(* ProviderResult (providers/types.py).                                    *)
(*   fields: sequence of <<name, value>> in insertion order, names unique  *)
(*   confidence: function from field names to confidences                  *)
(***************************************************************************)
ProviderResultOf(provider, success, fields, confidence, error) ==
  [ provider |-> provider, success |-> success, fields |-> fields,
    confidence |-> confidence, error |-> error ]

\* ProviderResult.failure(provider, error)
Failure(provider, error) ==
  ProviderResultOf(provider, FALSE, <<>>, [x \in {} |-> 0], Text(error))

\* ProviderResult.empty(provider)
EmptyResult(provider) ==
  ProviderResultOf(provider, TRUE, <<>>, [x \in {} |-> 0], NoText)

\* self.fields[name] = value on an insertion-ordered dict: an existing key
\* keeps its place, a new key goes last.
OrderedSet(fields, name, value) ==
  IF \E i \in DOMAIN fields : fields[i][1] = name
  THEN [i \in DOMAIN fields |->
          IF fields[i][1] = name THEN <<name, value>> ELSE fields[i]]
  ELSE Append(fields, <<name, value>>)

\* The text of a float held in tenths, as an f-string renders it: 15 is
\* "1.5", 10 is "1.0", -5 is "-0.5".
FloatText(tenths) ==
  LET a == IF tenths < 0 THEN -tenths ELSE tenths
  IN (IF tenths < 0 THEN "-" ELSE "")
       \o ToString(a \div 10) \o "." \o ToString(a % 10)

\* f"confidence must be in [0.0, 1.0], got {confidence}"
ConfidenceMessage(confidence) ==
  "confidence must be in [0.0, 1.0], got " \o FloatText(confidence)

\* Variant of BadConfidence: only the upper end is tested.
BadConfidenceAbove(confidence) == confidence > DefaultConfidence

\* The test of set_field: not 0.0 <= confidence <= 1.0
BadConfidence(confidence) == ~(0 <= confidence /\ confidence <= DefaultConfidence)

\* ProviderResult.set_field(name, value, confidence) on a valid confidence.
SetField(r, name, value, confidence) ==
  [r EXCEPT !.fields = OrderedSet(r.fields, name, value),
            !.confidence = DictSet(r.confidence, name, confidence)]

\* ProviderResult.set_field(name, value, confidence) as a whole: the
\* ValueError of an invalid confidence, raised before either map is
\* written, or the result with both maps written.
SetFieldOutcome(r, name, value, confidence) ==
  IF BadConfidence(confidence)
  THEN [ kind |-> "raise", result |-> r,
         exc |-> [cls |-> "ValueError", msg |-> ConfidenceMessage(confidence)] ]
  ELSE [ kind |-> "return", result |-> SetField(r, name, value, confidence),
         exc |-> [cls |-> "", msg |-> ""] ]

(***************************************************************************)
(* Providers.  A provider is [name, priority, kind, is_override]           *)
(* (providers/base.py, MetadataProvider).                                  *)
(***************************************************************************)
Provider(name, priority, kind, is_override) ==
  [ name |-> name, priority |-> priority, kind |-> kind,
    is_override |-> is_override ]

\* Python's order on the provider names of the model (str.__lt__): the
\* names in ascending order.
NameOrder == << "abs_sidecar", "audnex", "mediainfo", "mock", "private_db" >>

NameRank(n) == CHOOSE i \in DOMAIN NameOrder : NameOrder[i] = n

NameLess(a, b) == NameRank(a) < NameRank(b)

\* provider_map = {p.name: p for p in provider_list}
ProviderMap(provider_list) ==
  [ n \in { provider_list[i].name : i \in DOMAIN provider_list } |->
      LET last == CHOOSE i \in DOMAIN provider_list :
                    /\ provider_list[i].name = n
                    /\ \A j \in DOMAIN provider_list :
                         provider_list[j].name = n => j <= i
      IN provider_list[last] ]

(***************************************************************************)
(* MetadataAggregator: the pure helpers (aggregator.py).                   *)
(***************************************************************************)
\* _is_empty: value is None or value == "" or value == []
IsEmpty(value) ==
  \/ value.t = "none"
  \/ (value.t = "str" /\ value.v = <<>>)
  \/ (value.t = "list" /\ value.v = <<>>)

\* Skipping every empty value, whoever emits it.
ShouldSkipEmptyAlways(provider, value) == IsEmpty(value)

\* _should_skip_empty(provider, value)
ShouldSkipEmpty(provider, value) ==
  IF provider.is_override THEN FALSE ELSE IsEmpty(value)

\* _value_quality(field_name, value)
ValueQuality(field_name, value) ==
  IF value.t = "none" THEN 0
  ELSE IF value.t = "str" THEN Len(value.v)
  ELSE IF value.t = "list" THEN Len(value.v)
  ELSE 1

\* Variant of FilledBy: an empty value never counts, override or not.
FilledByNonEmpty(result, provider_map) ==
  { result.fields[i][1] : i \in
      { j \in DOMAIN result.fields : ~IsEmpty(result.fields[j][2]) } }

\* The fields of one result that count as filled (the inner loop of
\* _get_filled_fields); provider_map.get(result.provider) may be None.
FilledBy(result, provider_map) ==
  { result.fields[i][1] : i \in
      { j \in DOMAIN result.fields :
          \/ (result.provider \in DOMAIN provider_map
                /\ provider_map[result.provider].is_override)
          \/ ~IsEmpty(result.fields[j][2]) } }

\* _get_filled_fields(results, provider_map)
GetFilledFields(results, provider_map) ==
  UNION { IF results[i].success THEN FilledBy(results[i], provider_map) ELSE {}
          : i \in DOMAIN results }

(***************************************************************************)
(* _resolve_conflict.  A candidate is [provider, value, confidence,        *)
(* priority]; a scored candidate has quality too.                          *)
(***************************************************************************)
Candidate(provider, value, confidence, priority) ==
  [ provider |-> provider, value |-> value, confidence |-> confidence,
    priority |-> priority ]

\* A sort key without the name: x[3]
PriorityKeyLessNoName(a, b) == a.priority < b.priority

\* key=lambda x: (x[3], x[0]): priority, then name
PriorityKeyLess(a, b) ==
  \/ a.priority < b.priority
  \/ (a.priority = b.priority /\ NameLess(a.provider, b.provider))

\* A sort key without the quality: (-x[2], x[3], x[0])
ConfidenceKeyLessNoQuality(a, b) ==
  \/ a.confidence > b.confidence
  \/ /\ a.confidence = b.confidence
     /\ \/ a.priority < b.priority
        \/ (a.priority = b.priority /\ NameLess(a.provider, b.provider))

\* key=lambda x: (-x[2], x[3], -x[4], x[0])
ConfidenceKeyLess(a, b) ==
  \/ a.confidence > b.confidence
  \/ /\ a.confidence = b.confidence
     /\ \/ a.priority < b.priority
        \/ /\ a.priority = b.priority
           /\ \/ a.quality > b.quality
              \/ (a.quality = b.quality /\ NameLess(a.provider, b.provider))

KeyLess(strategy, a, b) ==
  IF strategy = "priority" THEN PriorityKeyLess(a, b)
  ELSE ConfidenceKeyLess(a, b)

\* list.sort is stable: x goes before the first element whose key is
\* strictly greater than its own.
RECURSIVE InsertSorted(_, _, _, _)
InsertSorted(strategy, sorted, x, i) ==
  IF i > Len(sorted) THEN Append(sorted, x)
  ELSE IF KeyLess(strategy, x, sorted[i])
       THEN SubSeq(sorted, 1, i - 1) \o <<x>> \o SubSeq(sorted, i, Len(sorted))
       ELSE InsertSorted(strategy, sorted, x, i + 1)

RECURSIVE SortFrom(_, _, _, _)
SortFrom(strategy, s, i, sorted) ==
  IF i > Len(s) THEN sorted
  ELSE SortFrom(strategy, s, i + 1, InsertSorted(strategy, sorted, s[i], 1))

StableSort(strategy, s) == SortFrom(strategy, s, 1, <<>>)

\* scored.append((provider, value, confidence, priority, quality))
Scored(field_name, candidates) ==
  [ i \in DOMAIN candidates |->
      [ provider |-> candidates[i].provider, value |-> candidates[i].value,
        confidence |-> candidates[i].confidence,
        priority |-> candidates[i].priority,
        quality |-> ValueQuality(field_name, candidates[i].value) ] ]

\* Variant of TieReason: the winner is compared with the last candidate.
TieReasonAgainstLast(scored) ==
  IF Len(scored) > 1
  THEN IF scored[1].confidence # scored[Len(scored)].confidence THEN "confidence"
       ELSE IF scored[1].priority # scored[Len(scored)].priority THEN "priority"
       ELSE "quality"
  ELSE "confidence"

\* "Determine what broke the tie"
TieReason(scored) ==
  IF Len(scored) > 1
  THEN IF scored[1].confidence # scored[2].confidence THEN "confidence"
       ELSE IF scored[1].priority # scored[2].priority THEN "priority"
       ELSE "quality"
  ELSE "confidence"

\* _resolve_conflict(field_name, candidates): the resolved value, the
\* reason, and the candidate list as the call leaves it (the "priority"
\* strategy sorts the caller's list in place; "confidence" sorts a copy).
ResolveConflict(strategy, field_name, candidates) ==
  IF strategy = "priority"
  THEN LET sorted == StableSort("priority", candidates)
       IN [ resolved |-> sorted[1].value, reason |-> "priority",
            candidates |-> sorted ]
  ELSE LET scored == StableSort("confidence", Scored(field_name, candidates))
       IN [ resolved |-> scored[1].value, reason |-> TieReason(scored),
            candidates |-> candidates ]

(***************************************************************************)
(* _merge.  The candidates dict is a sequence of [field, cands] in the     *)
(* order the fields were first seen.                                       *)
(***************************************************************************)
\* candidates[field_name].append(tuple), creating the list when missing
AddCandidate(candidates, field_name, c) ==
  IF \E i \in DOMAIN candidates : candidates[i].field = field_name
  THEN [ i \in DOMAIN candidates |->
           IF candidates[i].field = field_name
           THEN [candidates[i] EXCEPT !.cands = Append(@, c)]
           ELSE candidates[i] ]
  ELSE Append(candidates, [field |-> field_name, cands |-> <<c>>])

\* result.confidence.get(field_name, 1.0)
ConfidenceOf(result, field_name) ==
  IF field_name \in DOMAIN result.confidence
  THEN result.confidence[field_name]
  ELSE DefaultConfidence

\* for field_name, value in result.fields.items(): ...
RECURSIVE CollectFields(_, _, _, _)
CollectFields(result, provider, i, candidates) ==
  IF i > Len(result.fields) THEN candidates
  ELSE LET field_name == result.fields[i][1]
           value == result.fields[i][2]
       IN CollectFields(result, provider, i + 1,
            IF ShouldSkipEmpty(provider, value) THEN candidates
            ELSE AddCandidate(candidates, field_name,
                   Candidate(result.provider, value,
                             ConfidenceOf(result, field_name),
                             provider.priority)))

\* for result in results: skip failures and results of unknown providers
RECURSIVE CollectCandidates(_, _, _, _)
CollectCandidates(results, provider_map, i, candidates) ==
  IF i > Len(results) THEN candidates
  ELSE CollectCandidates(results, provider_map, i + 1,
         IF ~results[i].success THEN candidates
         ELSE IF results[i].provider \notin DOMAIN provider_map THEN candidates
         ELSE CollectFields(results[i], provider_map[results[i].provider], 1,
                            candidates))

\* values={p: v for p, v, _, _ in field_candidates}: the last entry of a
\* provider wins.
ConflictValues(cands) ==
  [ p \in { cands[i].provider : i \in DOMAIN cands } |->
      LET last == CHOOSE i \in DOMAIN cands :
                    /\ cands[i].provider = p
                    /\ \A j \in DOMAIN cands : cands[j].provider = p => j <= i
      IN cands[last].value ]

\* "Find which provider provided the resolved value": the first candidate,
\* in the list's order after _resolve_conflict, whose value == resolved.
SourceOf(cands, resolved) ==
  LET first == CHOOSE i \in DOMAIN cands :
                 /\ PyEq(cands[i].value, resolved)
                 /\ \A j \in DOMAIN cands : PyEq(cands[j].value, resolved) => i <= j
  IN cands[first].provider

FieldConflict(field, values, resolved_value, resolution_reason) ==
  [ field |-> field, values |-> values, resolved_value |-> resolved_value,
    resolution_reason |-> resolution_reason ]

AggregatedResult(fields, sources, conflicts, missing, errors) ==
  [ fields |-> fields, sources |-> sources, conflicts |-> conflicts,
    missing |-> missing, errors |-> errors ]

\* The body of "for field_name, field_candidates in candidates.items()"
ResolveField(strategy, agg, entry) ==
  IF Len(entry.cands) = 1
  THEN [agg EXCEPT
          !.fields = DictSet(@, entry.field, entry.cands[1].value),
          !.sources = DictSet(@, entry.field, entry.cands[1].provider)]
  ELSE LET rc == ResolveConflict(strategy, entry.field, entry.cands)
       IN [agg EXCEPT
             !.fields = DictSet(@, entry.field, rc.resolved),
             !.sources =
               IF \E i \in DOMAIN rc.candidates :
                    PyEq(rc.candidates[i].value, rc.resolved)
               THEN DictSet(@, entry.field, SourceOf(rc.candidates, rc.resolved))
               ELSE @,
             !.conflicts =
               Append(@, FieldConflict(entry.field,
                                       ConflictValues(rc.candidates),
                                       rc.resolved, rc.reason))]

RECURSIVE ResolveFields(_, _, _, _)
ResolveFields(strategy, candidates, i, agg) ==
  IF i > Len(candidates) THEN agg
  ELSE ResolveFields(strategy, candidates, i + 1,
                     ResolveField(strategy, agg, candidates[i]))

\* Variant of MissingOf: every canonical field is reported missing.
MissingOfAll(fields) == ALL_FIELDS

\* aggregated.missing = [f for f in ALL_FIELDS if f not in aggregated.fields]
\* (a list in set order: held as a set)
MissingOf(fields) == { f \in ALL_FIELDS : f \notin DOMAIN fields }

\* _merge(results, provider_map, errors)
Merge(strategy, results, provider_map, errors) ==
  LET candidates == CollectCandidates(results, provider_map, 1, <<>>)
      agg == ResolveFields(strategy, candidates, 1,
               AggregatedResult(EmptyDict, [x \in {} |-> ""], <<>>, {}, errors))
  IN [agg EXCEPT !.missing = MissingOf(agg.fields)]

(***************************************************************************)
(* Provider behaviour.  The outcome of a fetch is a returned               *)
(* ProviderResult or a raised exception [cls, msg].                        *)
(*                                                                         *)
(* A provider is a MockProvider with its configuration                     *)
(*   [impl |-> "mock", responses, confidences, errors]                     *)
(* (each a function of the identifier), or a test double of the            *)
(* MetadataProvider protocol that raises                                   *)
(*   [impl |-> "raises", cls, msg]                                         *)
(* or returns a prepared result                                            *)
(*   [impl |-> "returns", result].                                         *)
(***************************************************************************)
NoResult == ProviderResultOf("", FALSE, <<>>, [x \in {} |-> 0], NoText)
NoExc == [cls |-> "", msg |-> ""]

Returned(result) == [kind |-> "return", result |-> result, exc |-> NoExc]
Raised(cls, msg) ==
  [kind |-> "raise", result |-> NoResult, exc |-> [cls |-> cls, msg |-> msg]]

\* supported_id_types is left at its default, supported_id_types or {"asin"}
MockConfig(responses, confidences, errors) ==
  [ impl |-> "mock", responses |-> responses, confidences |-> confidences,
    errors |-> errors, supported_id_types |-> {"asin"} ]
RaisesConfig(cls, msg) == [impl |-> "raises", cls |-> cls, msg |-> msg]
ReturnsConfig(result) == [impl |-> "returns", result |-> result]

\* ctx.ids.get(id_type): <<>> (None) or <<identifier>>
Identifier(ctx, id_type) ==
  IF id_type \in DOMAIN ctx.ids THEN <<ctx.ids[id_type]>> ELSE <<>>

\* IdType = Literal["asin", "isbn", "goodreads_id", "hardcover_id"]
IdType == {"asin", "isbn", "goodreads_id", "hardcover_id"}

\* f"No {id_type} in context"
NoIdentifierMessage ==
  [ asin |-> "No asin in context",
    isbn |-> "No isbn in context",
    goodreads_id |-> "No goodreads_id in context",
    hardcover_id |-> "No hardcover_id in context" ]

\* The loop of MockProvider.fetch over the configured fields: set_field
\* raises ValueError on a confidence outside [0.0, 1.0].
RECURSIVE MockFill(_, _, _, _)
MockFill(result, fields, confidences, i) ==
  IF i > Len(fields) THEN Returned(result)
  ELSE LET field_name == fields[i][1]
           confidence == IF field_name \in DOMAIN confidences
                         THEN confidences[field_name]
                         ELSE DefaultConfidence
       IN IF BadConfidence(confidence)
          THEN Raised("ValueError", ConfidenceMessage(confidence))
          ELSE MockFill(SetField(result, field_name, fields[i][2], confidence),
                        fields, confidences, i + 1)

\* Variant of MockFetch: the configured response is served once, later
\* calls find nothing.
MockFetchOnce(name, cfg, ctx, id_type, fetch_count) ==
  LET identifier == Identifier(ctx, id_type)
  IN IF ~Truthy(identifier)
     THEN Returned(Failure(name, NoIdentifierMessage[id_type]))
     ELSE IF identifier[1] \in DOMAIN cfg.errors
     THEN Returned(Failure(name, cfg.errors[identifier[1]]))
     ELSE IF identifier[1] \in DOMAIN cfg.responses /\ fetch_count <= 1
     THEN MockFill(ProviderResultOf(name, TRUE, <<>>, [x \in {} |-> 0], NoText),
                   cfg.responses[identifier[1]],
                   IF identifier[1] \in DOMAIN cfg.confidences
                   THEN cfg.confidences[identifier[1]]
                   ELSE [x \in {} |-> 0],
                   1)
     ELSE Returned(EmptyResult(name))

\* MockProvider.fetch(ctx, id_type); fetch_count is self._fetch_count
\* before the call (the method counts its calls and reads nothing of it).
MockFetch(name, cfg, ctx, id_type, fetch_count) ==
  LET identifier == Identifier(ctx, id_type)
  IN IF ~Truthy(identifier)
     THEN Returned(Failure(name, NoIdentifierMessage[id_type]))
     ELSE IF identifier[1] \in DOMAIN cfg.errors
     THEN Returned(Failure(name, cfg.errors[identifier[1]]))
     ELSE IF identifier[1] \in DOMAIN cfg.responses
     THEN MockFill(ProviderResultOf(name, TRUE, <<>>, [x \in {} |-> 0], NoText),
                   cfg.responses[identifier[1]],
                   IF identifier[1] \in DOMAIN cfg.confidences
                   THEN cfg.confidences[identifier[1]]
                   ELSE [x \in {} |-> 0],
                   1)
     ELSE Returned(EmptyResult(name))

\* MockProvider.can_lookup(ctx, id_type)
MockCanLookup(cfg, ctx, id_type) ==
  LET identifier == Identifier(ctx, id_type)
  IN /\ id_type \in cfg.supported_id_types
     /\ Truthy(identifier)
     /\ (identifier[1] \in DOMAIN cfg.responses
           \/ identifier[1] \in DOMAIN cfg.errors)

\* provider.fetch(ctx, id_type) of any provider of the model
Fetch(name, cfg, ctx, id_type, fetch_count) ==
  IF cfg.impl = "mock" THEN MockFetch(name, cfg, ctx, id_type, fetch_count)
  ELSE IF cfg.impl = "raises" THEN Raised(cfg.cls, cfg.msg)
  ELSE Returned(cfg.result)

\* provider.can_lookup(ctx, id_type); a double is the example
\* implementation of providers/base.py:
\*   return id_type == "asin" and ctx.asin is not None
CanLookup(cfg, ctx, id_type) ==
  IF cfg.impl = "mock" THEN MockCanLookup(cfg, ctx, id_type)
  ELSE id_type = "asin" /\ Identifier(ctx, "asin") # <<>>

\* The base class of each exception class the model uses.
ExceptionBase ==
  [ BaseException |-> "",
    Exception |-> "BaseException",
    KeyboardInterrupt |-> "BaseException",
    CancelledError |-> "BaseException",
    LookupError |-> "Exception",
    KeyError |-> "LookupError",
    OSError |-> "Exception",
    ConnectionError |-> "OSError",
    ValueError |-> "Exception",
    TypeError |-> "Exception",
    RuntimeError |-> "Exception" ]

\* issubclass(cls, base)
RECURSIVE IsSubclass(_, _)
IsSubclass(cls, base) ==
  IF cls = base THEN TRUE
  ELSE IF cls = "" THEN FALSE
  ELSE IsSubclass(ExceptionBase[cls], base)

\* The classes "except Exception" catches: Exception and its subclasses;
\* asyncio.CancelledError and KeyboardInterrupt derive from BaseException
\* only.
ExceptionClasses == { c \in DOMAIN ExceptionBase : IsSubclass(c, "Exception") }

\* Variant of SafeFetch: no try/except around the provider's fetch.
SafeFetchUnguarded(provider, outcome) == outcome

\* _safe_fetch: try: return await provider.fetch(...)
\*              except Exception as e: return ProviderResult.failure(name, str(e))
SafeFetch(provider, outcome) ==
  IF outcome.kind = "raise" /\ outcome.exc.cls \in ExceptionClasses
  THEN Returned(Failure(provider.name, outcome.exc.msg))
  ELSE outcome

(***************************************************************************)
(* ProviderRegistry: a name -> provider map in registration order          *)
(* (providers/registry.py), held as the sequence of registered providers.  *)
(***************************************************************************)
\* registry.get(name): <<>> (None) or <<provider>>
RegistryGet(registry_, name) ==
  IF \E i \in DOMAIN registry_ : registry_[i].name = name
  THEN <<registry_[CHOOSE i \in DOMAIN registry_ : registry_[i].name = name]>>
  ELSE <<>>

\* registry.get_for_context(ctx, id_type): the registered providers whose
\* can_lookup is true, in registration order
RECURSIVE GetForContext(_, _, _, _, _)
GetForContext(registry_, behaviour_, ctx_, id_type, i) ==
  IF i > Len(registry_) THEN <<>>
  ELSE (IF CanLookup(behaviour_[registry_[i].name], ctx_, id_type)
        THEN <<registry_[i]>> ELSE <<>>)
       \o GetForContext(registry_, behaviour_, ctx_, id_type, i + 1)

(***************************************************************************)
(* fetch_all: the pure parts.                                              *)
(***************************************************************************)
\* required = set(required_fields or ["title"]); the argument is <<>> for
\* None and <<list>> for a list.
Required(required_fields) ==
  IF required_fields = <<>> \/ required_fields[1] = <<>> THEN {"title"}
  ELSE Range(required_fields[1])

\* [p for name in providers if (p := self.registry.get(name)) is not None]
RECURSIVE NamedProviders(_, _, _)
NamedProviders(registry_, names, i) ==
  IF i > Len(names) THEN <<>>
  ELSE RegistryGet(registry_, names[i]) \o NamedProviders(registry_, names, i + 1)

\* Variant of ResolveProviders: the `providers` argument is ignored.
ResolveProvidersIgnoringNames(registry_, behaviour_, ctx_, id_type, providers) ==
  GetForContext(registry_, behaviour_, ctx_, id_type, 1)

\* "Get applicable providers": providers is <<>> for None, <<list>> for a list
ResolveProviders(registry_, behaviour_, ctx_, id_type, providers) ==
  IF providers # <<>> /\ providers[1] # <<>>
  THEN NamedProviders(registry_, providers[1], 1)
  ELSE GetForContext(registry_, behaviour_, ctx_, id_type, 1)

\* [p for p in provider_list if p.kind == kind]
RECURSIVE OfKind(_, _, _)
OfKind(provider_list, kind, i) ==
  IF i > Len(provider_list) THEN <<>>
  ELSE (IF provider_list[i].kind = kind THEN <<provider_list[i]>> ELSE <<>>)
       \o OfKind(provider_list, kind, i + 1)

\* if result.success: results.append(result)
\* elif result.error: errors[result.provider] = result.error
Collect(acc, result) ==
  IF result.success
  THEN [acc EXCEPT !.results = Append(@, result)]
  ELSE IF Truthy(result.error)
       THEN [acc EXCEPT !.errors = DictSet(@, result.provider, result.error[1])]
       ELSE acc

\* for result in stage1: ...
RECURSIVE CollectAll(_, _, _)
CollectAll(acc, list, i) ==
  IF i > Len(list) THEN acc
  ELSE CollectAll(Collect(acc, list[i]), list, i + 1)

\* Variant of GatherOrder: the results in the order of completion.
GatherCompletionOrder(n, completed_) == completed_

\* asyncio.gather returns the results in the order of its awaitables:
\* position j of the returned list holds the result of awaitable j,
\* whatever the order `completed` in which they finished.
GatherOrder(n, completed_) == [j \in 1..n |-> j]

\* Variant of SkipNetwork: the coverage check before Stage 2 is missing.
SkipNetworkNever(stop_on_complete, required, results_, provider_map) == FALSE

\* Lines 168-170: if stop_on_complete and required:
\*                    if required.issubset(filled): return self._merge(...)
SkipNetwork(stop_on_complete, required, results_, provider_map) ==
  /\ stop_on_complete
  /\ required # {}
  /\ required \subseteq GetFilledFields(results_, provider_map)

\* Variant of EarlyExit: the loop looks at the last result only, not at the
\* results collected before it.
EarlyExitLastOnly(stop_on_complete, required, results_, provider_map) ==
  /\ stop_on_complete
  /\ required # {}
  /\ results_ # <<>>
  /\ required \subseteq
       GetFilledFields(<<results_[Len(results_)]>>, provider_map)

\* Lines 185-189: the early exit of the Stage 2 loop
EarlyExit(stop_on_complete, required, results_, provider_map) ==
  /\ stop_on_complete
  /\ required # {}
  /\ required \subseteq GetFilledFields(results_, provider_map)

\* Variant of Stage2Batch: the loop awaits a fetch it has not started.
Stage2BatchNone(n, k) == {}

\* Variant of Stage2Batch: the remaining network fetches start together.
Stage2BatchAll(n, k) == k..n

\* The network fetches the Stage 2 loop starts when it reaches position k
\* of network_providers: the loop awaits one fetch per iteration.
Stage2Batch(n, k) == {k}

(***************************************************************************)
(* mamfast.utils.retry: retry_with_backoff.                                *)
(*                                                                         *)
(* Delays are integers in microseconds.  An exception is a record with     *)
(* its class, its message and the number of the func call that raised it   *)
(* (its identity).                                                         *)
(***************************************************************************)

\* Variant of Caught: the handler catches whatever func raises.
CaughtAlways(cls, exceptions) == TRUE

\* except exceptions as e: the clause matches an instance of any listed class
Caught(cls, exceptions) ==
  \E i \in DOMAIN exceptions : IsSubclass(cls, exceptions[i])

\* exponential_base ** (attempt - 1)
RECURSIVE Power(_, _)
Power(b, e) == IF e <= 0 THEN 1 ELSE b * Power(b, e - 1)

\* min(base_delay * (exponential_base ** (attempt - 1)), max_delay)
BackoffDelay(base_delay, exponential_base, max_delay, attempt) ==
  LET d == base_delay * Power(exponential_base, attempt - 1)
  IN IF d < max_delay THEN d ELSE max_delay

\* delay * (0.75 + random.random() * 0.5), random.random() = r / 100
Jitter(delay, r) == (delay * (7500 + 50 * r)) \div 10000

\* Variant of FinalAttempt: the last attempt is not recognised.
FinalAttemptNever(attempt, max_attempts) == attempt > max_attempts

\* if attempt == max_attempts
FinalAttempt(attempt, max_attempts) == attempt = max_attempts

\* The arguments of retry_with_backoff.  exceptions is the tuple of class
\* names; on_retry is "none" (None), "records" (a callback that returns)
\* or "raises" (a callback that raises).
RetryArgs(max_attempts, base_delay, max_delay, exponential_base, jitter, exceptions, on_retry) ==
  [ max_attempts |-> max_attempts, base_delay |-> base_delay,
    max_delay |-> max_delay, exponential_base |-> exponential_base,
    jitter |-> jitter, exceptions |-> exceptions, on_retry |-> on_retry ]

\* What one call of func does.
FuncReturns(value) == [kind |-> "return", value |-> value, cls |-> "", msg |-> ""]
FuncRaises(cls, msg) == [kind |-> "raise", value |-> "", cls |-> cls, msg |-> msg]

\* The exception object raised by the n-th call of func.
ExcOf(outcome, n) == [cls |-> outcome.cls, msg |-> outcome.msg, id |-> n]
NoException == [cls |-> "", msg |-> "", id |-> 0]

\* The exception a raising on_retry callback raises.
CallbackError == [cls |-> "RuntimeError", msg |-> "callback", id |-> 0]

\* The state of one wrapper invocation: where it is, the loop variable,
\* last_exception, and what it has done so far (the calls of func, of
\* on_retry and of time.sleep, in order).
WrapperState(pc_, attempt, last_exception, calls, retried, slept, value, exc) ==
  [ pc |-> pc_, attempt |-> attempt, last_exception |-> last_exception,
    calls |-> calls, retried |-> retried, slept |-> slept,
    value |-> value, exc |-> exc ]

\* The wrapper before it is called.
WrapperIdle == WrapperState("idle", 0, NoException, 0, <<>>, <<>>, "", NoException)

(***************************************************************************)
(* Leaving the for loop without a return or raise: lines 84-86.            *)
(***************************************************************************)
LoopExit(st) ==
  IF st.last_exception # NoException
  THEN [st EXCEPT !.pc = "raised", !.exc = st.last_exception]
  ELSE [st EXCEPT !.pc = "raised",
                  !.exc = [cls |-> "RuntimeError",
                           msg |-> "Unexpected retry loop exit", id |-> 0]]

(***************************************************************************)
(* One iteration of the for loop (lines 52-81): func is called and does    *)
(* `outcome`; r is the value random.random() returns, in hundredths.       *)
(***************************************************************************)
Iteration(args, st, outcome, r) ==
  LET n == st.calls + 1
      called == [st EXCEPT !.calls = n]
      e == ExcOf(outcome, n)
      plain == BackoffDelay(args.base_delay, args.exponential_base,
                            args.max_delay, st.attempt)
      delay == IF args.jitter THEN Jitter(plain, r) ELSE plain
      failed == [called EXCEPT !.last_exception = e]
      notified == IF args.on_retry = "none" THEN failed
                  ELSE [failed EXCEPT !.retried =
                          Append(@, [exc |-> e, attempt |-> st.attempt,
                                     delay |-> delay])]
      asleep == [notified EXCEPT !.slept = Append(@, delay),
                                 !.attempt = st.attempt + 1]
  IN IF outcome.kind = "return"
     THEN [called EXCEPT !.pc = "returned", !.value = outcome.value]
     ELSE IF ~Caught(outcome.cls, args.exceptions)
     THEN [called EXCEPT !.pc = "raised", !.exc = e]
     ELSE IF FinalAttempt(st.attempt, args.max_attempts)
     THEN [failed EXCEPT !.pc = "raised", !.exc = e]
     ELSE IF args.on_retry = "raises"
     THEN [notified EXCEPT !.pc = "raised", !.exc = CallbackError]
     ELSE IF asleep.attempt > args.max_attempts
     THEN LoopExit(asleep)
     ELSE asleep

\* retry_with_backoff() with its default arguments (lines 18-24), wrapping
\* a function that is never called.
RetryUnused ==
  [ args |-> RetryArgs(3, 1000000, 30000000, 2, TRUE, <<"Exception">>, "none"),
    func |-> <<>>,
    state |-> WrapperIdle ]

(***************************************************************************)
(* The state.                                                              *)
(***************************************************************************)
VARIABLES
  registry,       \* the registered providers, in registration order
  behaviour,      \* provider name -> configuration of its fetch
  updates,        \* number of set_response, set_error and reset calls made
  ctx,            \* the LookupContext
  mergeStrategy,  \* MetadataAggregator.merge_strategy
  providersArg,   \* fetch_all(providers=...): <<>> is None, <<list>> a list
  stopOnComplete, \* fetch_all(stop_on_complete=...)
  requiredArg,    \* fetch_all(required_fields=...): <<>> is None
  pc,             \* where fetch_all is: idle, stage1, stage2, returned, raised
  call,           \* number of fetch_all calls started
  providerList,   \* provider_list of the running call
  stage1,         \* position in local_providers -> result (NoResult: pending)
  entered,        \* what each local fetch entered so far ends with, by position
  completed,      \* positions of the local fetches in order of completion
  results,        \* results
  errors,         \* errors
  invoked,        \* fetches started by the running call: [kind, i]
  inflight,       \* those still running
  fetchCount,     \* provider name -> MockProvider._fetch_count
  returned,       \* the outcome of every finished call, oldest first
  retry           \* a function wrapped by retry_with_backoff: the decorator's
                  \* arguments, what each call of func does, the wrapper's state

cfgVars ==
  << registry, behaviour, updates, ctx, mergeStrategy, providersArg, stopOnComplete,
     requiredArg >>

\* The state of the aggregator.
fetchVars ==
  << registry, behaviour, updates, ctx, mergeStrategy, providersArg, stopOnComplete,
     requiredArg, pc, call, providerList, stage1, entered, completed, results, errors,
     invoked, inflight, fetchCount, returned >>

vars ==
  << registry, behaviour, updates, ctx, mergeStrategy, providersArg, stopOnComplete,
     requiredArg, pc, call, providerList, stage1, entered, completed, results, errors,
     invoked, inflight, fetchCount, returned, retry >>

\* fetch_all(id_type="asin")
IdTypeArg == "asin"

LocalProviders == OfKind(providerList, "local", 1)
NetworkProviders == OfKind(providerList, "network", 1)

Job(kind, i) == [kind |-> kind, i |-> i]

\* Number of jobs of `jobs` that fetch the provider called name.
Occurrences(provider_list, jobs, name) ==
  Cardinality({ j \in jobs :
    OfKind(provider_list, j.kind, 1)[j.i].name = name })

\* provider.fetch is entered once per job: self._fetch_count += 1
CountFetches(provider_list, count, jobs) ==
  [ n \in DOMAIN count |-> count[n] + Occurrences(provider_list, jobs, n) ]

EmptyAggregated == AggregatedResult(EmptyDict, [x \in {} |-> ""], <<>>, {}, [x \in {} |-> ""])

\* How a call ended: with a value (the AggregatedResult) or an exception;
\* `order` and `invoked` record what the call did, `config` the
\* configuration of the providers it ran with.
Outcome(kind, value, exc, order, jobs) ==
  [ kind |-> kind, value |-> value, exc |-> exc, order |-> order,
    invoked |-> jobs, config |-> behaviour ]

(***************************************************************************)
(* What fetch_all does once the fetches before position next of            *)
(* network_providers are behind it: return the merge (covered, or no       *)
(* network provider left), or start the next network fetch.  order, jobs   *)
(* and running are the completion order, the fetches started and the       *)
(* fetches still running of this call.                                     *)
(***************************************************************************)
Continue(provider_list, acc, next, covered, order, jobs, running) ==
  LET n == Len(OfKind(provider_list, "network", 1))
      batch == { Job("network", k) : k \in Stage2Batch(n, next) }
  IN IF covered \/ next > n
     THEN /\ pc' = "returned"
          /\ returned' = Append(returned,
               Outcome("value",
                       Merge(mergeStrategy, acc.results,
                             ProviderMap(provider_list), acc.errors),
                       NoExc, order, jobs))
          /\ invoked' = jobs
          /\ inflight' = running
          /\ UNCHANGED fetchCount
     ELSE /\ pc' = "stage2"
          /\ invoked' = jobs \cup batch
          /\ inflight' = running \cup batch
          /\ fetchCount' = CountFetches(provider_list, fetchCount, batch)
          /\ UNCHANGED returned

\* An exception leaves fetch_all.
Propagate(exc, order) ==
  /\ pc' = "raised"
  /\ returned' = Append(returned,
       Outcome("raise", EmptyAggregated, exc, order, invoked))

(***************************************************************************)
(* fetch_all is called: lines 133-160.  With local providers it suspends   *)
(* in asyncio.gather (line 158), which has made one task per local fetch;  *)
(* no provider.fetch is entered yet.  Without local providers it goes on   *)
(* to the first network fetch (or the return).                             *)
(***************************************************************************)
Call ==
  /\ pc \in {"idle", "returned", "raised"}
  /\ call < MaxCalls
  /\ call' = call + 1
  /\ LET provider_list ==
           ResolveProviders(registry, behaviour, ctx, IdTypeArg, providersArg)
         local == OfKind(provider_list, "local", 1)
         acc == [results |-> <<>>, errors |-> [x \in {} |-> ""]]
     IN /\ providerList' = provider_list
        /\ results' = acc.results
        /\ errors' = acc.errors
        /\ entered' = <<>>
        /\ completed' = <<>>
        /\ stage1' = [i \in DOMAIN local |-> NoResult]
        /\ IF provider_list = <<>>
           THEN \* return AggregatedResult(missing=list(ALL_FIELDS))
                /\ pc' = "returned"
                /\ returned' = Append(returned,
                     Outcome("value",
                             [EmptyAggregated EXCEPT !.missing = ALL_FIELDS],
                             NoExc, <<>>, {}))
                /\ invoked' = {}
                /\ inflight' = {}
                /\ UNCHANGED fetchCount
           ELSE IF local # <<>>
           THEN \* await asyncio.gather(*(self._safe_fetch(p, ...) ...))
                /\ pc' = "stage1"
                /\ invoked' = {}
                /\ inflight' = {}
                /\ UNCHANGED << fetchCount, returned >>
           ELSE \* no local provider: the coverage check, then Stage 2
                Continue(provider_list, acc, 1,
                         SkipNetwork(stopOnComplete, Required(requiredArg),
                                     acc.results, ProviderMap(provider_list)),
                         <<>>, {}, {})
  /\ UNCHANGED cfgVars
  /\ UNCHANGED retry

(***************************************************************************)
(* The tasks gather made run in the order they were made: the first step   *)
(* of the next one enters _safe_fetch and the provider's fetch.  What the  *)
(* fetch ends with is fixed there: MockProvider.fetch has no await, it     *)
(* counts itself and reads its configuration in the step that enters it.   *)
(***************************************************************************)
LocalJobs(jobs) == { j \in jobs : j.kind = "local" }

\* What the fetch of the i-th local provider does when it is entered now.
FetchOnEntry(i) ==
  SafeFetch(LocalProviders[i],
            Fetch(LocalProviders[i].name, behaviour[LocalProviders[i].name],
                  ctx, IdTypeArg, fetchCount[LocalProviders[i].name]))

StartLocal ==
  /\ pc = "stage1"
  /\ Cardinality(LocalJobs(invoked)) < Len(LocalProviders)
  /\ LET job == Job("local", Cardinality(LocalJobs(invoked)) + 1)
     IN /\ invoked' = invoked \cup {job}
        /\ inflight' = inflight \cup {job}
        /\ entered' = Append(entered, FetchOnEntry(job.i))
        /\ fetchCount' = CountFetches(providerList, fetchCount, {job})
  /\ UNCHANGED << pc, call, providerList, stage1, completed, results, errors,
                  returned >>
  /\ UNCHANGED cfgVars
  /\ UNCHANGED retry

\* What the task of the i-th local fetch ends with.
LocalOutcome(i) == entered[i]

(***************************************************************************)
(* One of the gathered local fetches completes: its task ends with the     *)
(* result of _safe_fetch, or with the BaseException it lets through.       *)
(* fetch_all stays suspended in gather; after gather has raised, the tasks  *)
(* still running go on to their end.                                       *)
(***************************************************************************)
CompleteLocal(i) ==
  /\ pc \in {"stage1", "raised"}
  /\ Job("local", i) \in inflight
  /\ completed' = Append(completed, i)
  /\ inflight' = inflight \ {Job("local", i)}
  /\ stage1' = IF LocalOutcome(i).kind = "raise" THEN stage1
               ELSE [stage1 EXCEPT ![i] = LocalOutcome(i).result]
  /\ UNCHANGED << pc, returned, call, providerList, results, errors, invoked,
                  entered, fetchCount >>
  /\ UNCHANGED cfgVars
  /\ UNCHANGED retry

\* The positions in `completed` of the local fetches that ended with an
\* exception.
FailedAt == { k \in DOMAIN completed : LocalOutcome(completed[k]).kind = "raise" }

(***************************************************************************)
(* gather (return_exceptions=False) hands the first exception a task       *)
(* ended with to fetch_all, which raises it at line 158.  The tasks were   *)
(* all made before any of them ran, so each has entered its fetch by       *)
(* then; the ones still running are left running.                          *)
(***************************************************************************)
GatherRaises ==
  /\ pc = "stage1"
  /\ Cardinality(LocalJobs(invoked)) = Len(LocalProviders)
  /\ FailedAt # {}
  /\ LET first == CHOOSE k \in FailedAt : \A m \in FailedAt : k <= m
     IN Propagate(LocalOutcome(completed[first]).exc, completed)
  /\ UNCHANGED << call, providerList, stage1, entered, completed, results, errors,
                  invoked, inflight, fetchCount >>
  /\ UNCHANGED cfgVars
  /\ UNCHANGED retry

(***************************************************************************)
(* gather has every result: lines 161-172, and on to Stage 2.              *)
(***************************************************************************)
AfterStage1 ==
  /\ pc = "stage1"
  /\ Len(completed) = Len(LocalProviders)
  /\ FailedAt = {}
  /\ LET n == Len(LocalProviders)
         order == GatherOrder(n, completed)
         stage1_ == [j \in 1..n |-> stage1[order[j]]]
         acc == CollectAll([results |-> results, errors |-> errors], stage1_, 1)
         covered == SkipNetwork(stopOnComplete, Required(requiredArg),
                                acc.results, ProviderMap(providerList))
     IN /\ results' = acc.results
        /\ errors' = acc.errors
        /\ Continue(providerList, acc, 1, covered, completed, invoked, {})
  /\ UNCHANGED << call, providerList, stage1, entered, completed >>
  /\ UNCHANGED cfgVars
  /\ UNCHANGED retry

(***************************************************************************)
(* An awaited network fetch completes: lines 178-189, and the next         *)
(* iteration of the loop or the final merge (line 191).                    *)
(***************************************************************************)
NetworkDone(k) ==
  /\ pc = "stage2"
  /\ Job("network", k) \in inflight
  /\ LET provider == NetworkProviders[k]
         outcome == SafeFetch(provider,
                      Fetch(provider.name, behaviour[provider.name], ctx,
                            IdTypeArg, fetchCount[provider.name]))
         others == inflight \ {Job("network", k)}
         started == { j.i : j \in { x \in invoked : x.kind = "network" } }
         next == IF \E j \in DOMAIN NetworkProviders : j \notin started
                 THEN CHOOSE j \in DOMAIN NetworkProviders :
                        /\ j \notin started
                        /\ \A m \in DOMAIN NetworkProviders :
                             m \notin started => j <= m
                 ELSE Len(NetworkProviders) + 1
     IN IF outcome.kind = "raise"
        THEN /\ Propagate(outcome.exc, completed)
             /\ inflight' = others
             /\ UNCHANGED << results, errors, invoked, fetchCount >>
        ELSE LET acc == Collect([results |-> results, errors |-> errors],
                                outcome.result)
                 covered == EarlyExit(stopOnComplete, Required(requiredArg),
                                      acc.results, ProviderMap(providerList))
             IN /\ results' = acc.results
                /\ errors' = acc.errors
                /\ IF others # {} /\ ~covered
                   THEN /\ inflight' = others
                        /\ UNCHANGED << pc, returned, invoked, fetchCount >>
                   ELSE Continue(providerList, acc, next, covered, completed,
                                 invoked, others)
  /\ UNCHANGED << call, providerList, stage1, entered, completed >>
  /\ UNCHANGED cfgVars
  /\ UNCHANGED retry

(***************************************************************************)
(* The configurations the model runs fetch_all on.                         *)
(***************************************************************************)
Asin == "B08G9PRS1K"

\* The registry of the model: a sidecar override and a file inspector
\* (local), the metadata API and a mock (network).
Registry ==
  << Provider("abs_sidecar", 10, "local", TRUE),
     Provider("mediainfo", 20, "local", FALSE),
     Provider("audnex", 20, "network", FALSE),
     Provider("mock", 50, "network", FALSE) >>

RegistryNames == { Registry[i].name : i \in DOMAIN Registry }

\* A MockProvider configured for Asin: a response, or a response with
\* confidences, or an error.
Responds(fields) == MockConfig(Asin :> fields, [x \in {} |-> 0], [x \in {} |-> ""])
RespondsWith(fields, confidences) ==
  MockConfig(Asin :> fields, Asin :> confidences, [x \in {} |-> ""])
Fails(error) == MockConfig([x \in {} |-> 0], [x \in {} |-> 0], Asin :> error)
Unconfigured == MockConfig([x \in {} |-> 0], [x \in {} |-> 0], [x \in {} |-> ""])

\* The behaviours each provider is run with; the first is its default.
Behaviours(name) ==
  IF name = "abs_sidecar"
  THEN << Responds(<< <<"title", Str(<<>>)>> >>),
          RespondsWith(<< <<"title", Str(<<"T">>)>> >>, "title" :> 5),
          RaisesConfig("RuntimeError", "boom"),
          ReturnsConfig(ProviderResultOf("abs_sidecar", FALSE,
                                         << <<"title", Str(<<"T">>)>> >>,
                                         "title" :> DefaultConfidence,
                                         NoText)) >>
  ELSE IF name = "mediainfo"
  THEN << Responds(<< <<"title", Str(<<"T">>)>>, <<"genres", Lst(<<"g">>)>> >>),
          Responds(<< <<"genres", Lst(<<"g">>)>>, <<"title", NoneV>> >>),
          Fails("not found"),
          RaisesConfig("CancelledError", "stop") >>
  ELSE IF name = "audnex"
  THEN << RespondsWith(<< <<"title", Str(<<"T", "t">>)>> >>, "title" :> 9),
          Responds(<< <<"genres", Lst(<<"g", "h">>)>> >>),
          RespondsWith(<< <<"title", Str(<<"T">>)>> >>, "title" :> 15),
          RaisesConfig("CancelledError", ""),
          Fails("") >>
  ELSE << Responds(<< <<"title", Str(<<"M">>)>>, <<"genres", Lst(<<"m">>)>> >>),
          RaisesConfig("RuntimeError", ""),
          Unconfigured >>

\* The LookupContexts: from_asin(asin=Asin), one without identifiers and
\* LookupContext(ids={"asin": ""}).
Contexts ==
  { [ids |-> "asin" :> Asin], [ids |-> [x \in {} |-> ""]], [ids |-> "asin" :> ""] }

\* The names the lists of a `providers` argument draw from: a local
\* provider, the network providers and a name the registry does not know.
ArgNames == {"abs_sidecar", "audnex", "mock", "nosuch"}

RECURSIVE SeqsUpTo(_, _)
SeqsUpTo(S, n) ==
  IF n = 0 THEN {<<>>}
  ELSE LET shorter == SeqsUpTo(S, n - 1)
       IN shorter \cup { Append(q, x) : q \in shorter, x \in S }

\* providers=None, the two local providers against the registry's order,
\* or a list of at most MaxProviders names
ProviderArgs ==
  {<<>>, << <<"mediainfo", "abs_sidecar">> >>}
    \cup { <<q>> : q \in SeqsUpTo(ArgNames, MaxProviders) }

\* required_fields=None, or a list; the argument is read only under
\* stop_on_complete.
RequiredArgs(stop_on_complete) ==
  IF stop_on_complete THEN { <<>>, << <<"title", "genres">> >> } ELSE { <<>> }

Strategies == {"confidence", "priority"}

\* Whether the call can fetch the provider called name.
IsCandidate(providers, name) ==
  \/ providers = <<>>
  \/ providers[1] = <<>>
  \/ name \in Range(providers[1])

\* Whether the `providers` argument names the provider: it is then fetched
\* whatever its can_lookup says.
IsNamed(providers, name) ==
  providers # <<>> /\ name \in Range(providers[1])

\* The behaviours that make a difference to the calls: a provider that no
\* call fetches runs its default behaviour; without a non-empty identifier
\* no MockProvider can look the context up, and one that is named all the
\* same answers "No asin in context" before it reads its configuration,
\* while a double is fetched when it is named or the context has an ASIN
\* key, and raises or returns what it was made for.
BehaviourChoices(providers, ctx_, name) ==
  IF ~IsCandidate(providers, name) THEN {Behaviours(name)[1]}
  ELSE IF Truthy(Identifier(ctx_, "asin")) THEN Range(Behaviours(name))
  ELSE IF IsNamed(providers, name) \/ Identifier(ctx_, "asin") # <<>>
  THEN {Behaviours(name)[1]}
         \cup { b \in Range(Behaviours(name)) : b.impl # "mock" }
  ELSE {Behaviours(name)[1]}

Init ==
  /\ registry = Registry
  /\ updates = 0
  /\ ctx \in Contexts
  /\ mergeStrategy \in Strategies
  /\ providersArg \in ProviderArgs
  /\ stopOnComplete \in BOOLEAN
  /\ requiredArg \in RequiredArgs(stopOnComplete)
  /\ \E a \in BehaviourChoices(providersArg, ctx, "abs_sidecar"),
        b \in BehaviourChoices(providersArg, ctx, "mediainfo"),
        c \in BehaviourChoices(providersArg, ctx, "audnex"),
        d \in BehaviourChoices(providersArg, ctx, "mock") :
       behaviour = ("abs_sidecar" :> a) @@ ("mediainfo" :> b)
                     @@ ("audnex" :> c) @@ ("mock" :> d)
  /\ pc = "idle"
  /\ call = 0
  /\ providerList = <<>>
  /\ stage1 = <<>>
  /\ entered = <<>>
  /\ completed = <<>>
  /\ results = <<>>
  /\ errors = [x \in {} |-> ""]
  /\ invoked = {}
  /\ inflight = {}
  /\ fetchCount = [n \in RegistryNames |-> 0]
  /\ returned = <<>>
  /\ retry = RetryUnused

Next ==
  \/ Call
  \/ StartLocal
  \/ \E i \in DOMAIN LocalProviders : CompleteLocal(i)
  \/ GatherRaises
  \/ AfterStage1
  \/ \E k \in DOMAIN NetworkProviders : NetworkDone(k)

Spec == Init /\ [][Next]_vars

(***************************************************************************)
(* fetch_all between reconfigurations of its providers.  Between two calls *)
(* the caller may use the public mutators of MockProvider (mock.py):       *)
(* set_response, set_error and reset.                                      *)
(***************************************************************************)
\* The providers ReconfigSpec reconfigures: a local and a network one.
Reconfigured == {"abs_sidecar", "audnex"}

\* set_response(identifier, fields, confidences=None): the fields and the
\* confidences ({} stands for None, `if confidences:` reads both alike)
SetResponseFields ==
  { << <<"title", Str(<<>>)>> >>,
    << <<"title", Str(<<"U">>)>>, <<"genres", Lst(<<"g">>)>> >> }

SetResponseConfidences == { [x \in {} |-> 0], "title" :> 5 }

\* self._fetch_history: fetch appends (ctx, id_type), and every fetch of
\* the model is made with ctx and IdTypeArg.
FetchHistory(name) == [n \in 1..fetchCount[name] |-> <<ctx, IdTypeArg>>]

\* The runs in which the caller reconfigures: calls with
\* stop_on_complete=False over the whole registry on a context with an
\* ASIN, whose reconfigured providers start as configured mocks.
Reconfigurable ==
  /\ providersArg = <<>>
  /\ Truthy(Identifier(ctx, "asin"))
  /\ ~stopOnComplete
  /\ behaviour["mediainfo"] \in {Behaviours("mediainfo")[1], Behaviours("mediainfo")[4]}
  /\ behaviour["mock"] = Behaviours("mock")[1]
  /\ updates = 0 =>
       /\ behaviour["abs_sidecar"] = Behaviours("abs_sidecar")[2]
       /\ behaviour["audnex"] = Behaviours("audnex")[1]

\* No fetch_all call is running, and the caller has a reconfiguration left.
BetweenCalls ==
  /\ pc \in {"idle", "returned", "raised"}
  /\ updates < MaxUpdates
  /\ Reconfigurable

SetResponse(name) ==
  /\ BetweenCalls
  /\ behaviour[name].impl = "mock"
  /\ \E fields \in SetResponseFields, confidences \in SetResponseConfidences :
       behaviour' =
         [behaviour EXCEPT ![name] =
           [@ EXCEPT !.responses = (Asin :> fields) @@ @,
                     !.confidences = IF confidences # [x \in {} |-> 0]
                                     THEN (Asin :> confidences) @@ @
                                     ELSE @]]
  /\ updates' = updates + 1
  /\ UNCHANGED << registry, ctx, mergeStrategy, providersArg, stopOnComplete, requiredArg >>
  /\ UNCHANGED << pc, call, providerList, stage1, entered, completed, results, errors, invoked, inflight, fetchCount, returned, retry >>

SetError(name) ==
  /\ BetweenCalls
  /\ behaviour[name].impl = "mock"
  /\ behaviour' =
       [behaviour EXCEPT ![name] = [@ EXCEPT !.errors = (Asin :> "gone") @@ @]]
  /\ updates' = updates + 1
  /\ UNCHANGED << registry, ctx, mergeStrategy, providersArg, stopOnComplete, requiredArg >>
  /\ UNCHANGED << pc, call, providerList, stage1, entered, completed, results, errors, invoked, inflight, fetchCount, returned, retry >>

\* reset(): _fetch_count = 0, _fetch_history = []
Reset(name) ==
  /\ BetweenCalls
  /\ behaviour[name].impl = "mock"
  /\ fetchCount' = [fetchCount EXCEPT ![name] = 0]
  /\ updates' = updates + 1
  /\ UNCHANGED << registry, behaviour, ctx, mergeStrategy, providersArg, stopOnComplete, requiredArg >>
  /\ UNCHANGED << pc, call, providerList, stage1, entered, completed, results, errors, invoked, inflight, returned, retry >>

ReconfigNext ==
  \/ Next
  \/ \E name \in Reconfigured : SetResponse(name)
  \/ \E name \in Reconfigured : SetError(name)
  \/ \E name \in Reconfigured : Reset(name)

ReconfigSpec == Init /\ [][ReconfigNext]_vars

(***************************************************************************)
(* _merge on its own: MergeSpec hands _merge up to MaxResults results,     *)
(* each with at most a title, in any order; several of them can carry the  *)
(* name of the same provider.                                              *)
(***************************************************************************)
\* The registry of MergeSpec: equal and different priorities, with the
\* lower number on the smaller and on the larger name, two overrides.
MergeRegistry ==
  << Provider("abs_sidecar", 20, "local", TRUE),
     Provider("audnex", 10, "network", FALSE),
     Provider("mediainfo", 20, "local", FALSE),
     Provider("private_db", 10, "local", TRUE) >>

MergeNames == { MergeRegistry[i].name : i \in DOMAIN MergeRegistry }

\* The (value, confidence) pairs of a title that every provider can hand
\* over: strings of length 1 and 2, at the default and at a lower
\* confidence.
MergeTitles ==
  { <<Str(<<"T">>), DefaultConfidence>>,
    <<Str(<<"T", "t">>), DefaultConfidence>>,
    <<Str(<<"T">>), 5>>,
    <<Str(<<"T", "t">>), 5>> }

\* The further values of a title, by provider: the three empty values,
\* each from an override and from a provider that is not one, a list,
\* and a value that is neither a string nor a list.
MergeValues(name) ==
  CASE name = "abs_sidecar" -> { NoneV, Str(<<>>) }
    [] name = "audnex" -> { Str(<<>>), Lst(<<>>) }
    [] name = "mediainfo" -> { NoneV, Oth(<<"7">>) }
    [] name = "private_db" -> { Lst(<<>>), Lst(<<"g">>) }

\* The results a provider can hand over: empty, or a title.
MergeResultsOf(name) ==
  {EmptyResult(name)} \cup
  { SetField(EmptyResult(name), "title", e[1], e[2]) :
      e \in MergeTitles \cup { <<v, DefaultConfidence>> : v \in MergeValues(name) } }

MergeInit ==
  /\ registry = MergeRegistry
  /\ updates = 0
  /\ behaviour = [n \in MergeNames |-> Unconfigured]
  /\ ctx = [ids |-> "asin" :> Asin]
  /\ mergeStrategy \in Strategies
  /\ providersArg = <<>>
  /\ stopOnComplete = TRUE
  /\ requiredArg = <<>>
  /\ pc = "merging"
  /\ call = 1
  /\ providerList = MergeRegistry
  /\ stage1 = <<>>
  /\ entered = <<>>
  /\ completed = <<>>
  /\ results = <<>>
  /\ errors = [x \in {} |-> ""]
  /\ invoked = {}
  /\ inflight = {}
  /\ fetchCount = [n \in MergeNames |-> 0]
  /\ returned = <<>>
  /\ retry = RetryUnused

\* results.append(result): the result of a provider is added to the
\* results, whatever they hold already.
AppendResult(name, result) ==
  /\ pc = "merging"
  /\ Len(results) < MaxResults
  /\ results' = Append(results, result)
  /\ UNCHANGED << pc, call, providerList, stage1, entered, completed, errors,
                  invoked, inflight, fetchCount, returned >>
  /\ UNCHANGED cfgVars
  /\ UNCHANGED retry

\* return self._merge(results, provider_map, errors)
MergeCall ==
  /\ pc = "merging"
  /\ pc' = "returned"
  /\ returned' = Append(returned,
       Outcome("value",
               Merge(mergeStrategy, results, ProviderMap(providerList), errors),
               NoExc, completed, invoked))
  /\ UNCHANGED << call, providerList, stage1, entered, completed, results, errors,
                  invoked, inflight, fetchCount >>
  /\ UNCHANGED cfgVars
  /\ UNCHANGED retry

MergeNext ==
  \/ \E name \in MergeNames : \E result \in MergeResultsOf(name) :
       AppendResult(name, result)
  \/ MergeCall

MergeSpec == MergeInit /\ [][MergeNext]_vars

(***************************************************************************)
(* fetch_all as a function of its candidate list: what one call returns    *)
(* when the local fetches are taken in list order.  The claims compare     *)
(* the calls of the state machine, whose local fetches complete in any     *)
(* order, with it.                                                         *)
(***************************************************************************)
OutcomeOf(provider) ==
  SafeFetch(provider,
            Fetch(provider.name, behaviour[provider.name], ctx, IdTypeArg, 0))

\* The Stage 2 loop from position k of network_providers on.
RECURSIVE NetworkLoop(_, _, _)
NetworkLoop(provider_list, acc, k) ==
  LET net == OfKind(provider_list, "network", 1)
      provider_map == ProviderMap(provider_list)
  IN IF k > Len(net)
     THEN [kind |-> "value",
           value |-> Merge(mergeStrategy, acc.results, provider_map, acc.errors)]
     ELSE IF OutcomeOf(net[k]).kind = "raise"
     THEN [kind |-> "raise", value |-> EmptyAggregated]
     ELSE LET after == Collect(acc, OutcomeOf(net[k]).result)
          IN IF EarlyExit(stopOnComplete, Required(requiredArg), after.results,
                          provider_map)
             THEN [kind |-> "value",
                   value |-> Merge(mergeStrategy, after.results, provider_map,
                                   after.errors)]
             ELSE NetworkLoop(provider_list, after, k + 1)

FetchAllOf(provider_list) ==
  LET local == OfKind(provider_list, "local", 1)
      provider_map == ProviderMap(provider_list)
      stage1_ == [i \in DOMAIN local |-> OutcomeOf(local[i]).result]
      acc == CollectAll([results |-> <<>>, errors |-> [x \in {} |-> ""]],
                        stage1_, 1)
  IN IF provider_list = <<>>
     THEN [kind |-> "value",
           value |-> [EmptyAggregated EXCEPT !.missing = ALL_FIELDS]]
     ELSE IF \E i \in DOMAIN local : OutcomeOf(local[i]).kind = "raise"
     THEN [kind |-> "raise", value |-> EmptyAggregated]
     ELSE IF SkipNetwork(stopOnComplete, Required(requiredArg), acc.results,
                         provider_map)
     THEN [kind |-> "value",
           value |-> Merge(mergeStrategy, acc.results, provider_map, acc.errors)]
     ELSE NetworkLoop(provider_list, acc, 1)

(***************************************************************************)
(* Vocabulary of the claims.                                               *)
(***************************************************************************)
Finished == pc \in {"returned", "raised"}
Last == returned[Len(returned)]

\* What the provider's own fetch does, before _safe_fetch.
RawOutcome(provider) ==
  Fetch(provider.name, behaviour[provider.name], ctx, IdTypeArg, 0)

\* The provider's fetch raises an Exception subclass.
Raises(provider) ==
  /\ RawOutcome(provider).kind = "raise"
  /\ RawOutcome(provider).exc.cls \in ExceptionClasses

\* The provider's fetch returns a result with success=True.
Succeeds(provider) ==
  /\ RawOutcome(provider).kind = "return"
  /\ RawOutcome(provider).result.success

\* The provider's fetch returns a result with success=False.
ReturnsFailure(provider) ==
  /\ RawOutcome(provider).kind = "return"
  /\ ~RawOutcome(provider).result.success

\* The provider a fetch of the running call is made on.
ProviderOfJob(j) == OfKind(providerList, j.kind, 1)[j.i]

\* The candidate list without the providers whose fetch raises.
RECURSIVE WithoutRaising(_, _)
WithoutRaising(provider_list, i) ==
  IF i > Len(provider_list) THEN <<>>
  ELSE (IF Raises(provider_list[i]) THEN <<>> ELSE <<provider_list[i]>>)
       \o WithoutRaising(provider_list, i + 1)

\* A value the spec calls empty: None, "" or [].
EmptyValue(value) == value \in {NoneV, Str(<<>>), Lst(<<>>)}

\* The fields a successful provider fills, as the spec defines it: any
\* field of an override provider, the non-empty fields of another.
FillsField(provider, f) ==
  /\ Succeeds(provider)
  /\ \E i \in DOMAIN RawOutcome(provider).result.fields :
       /\ RawOutcome(provider).result.fields[i][1] = f
       /\ (provider.is_override
             \/ ~EmptyValue(RawOutcome(provider).result.fields[i][2]))

\* The required fields are all filled by the local candidates together
\* with the first k network candidates.
CoveredBy(k) ==
  \Af \in Required(requiredArg) :
    \/ \E i \in DOMAIN LocalProviders : FillsField(LocalProviders[i], f)
    \/ \E i \in DOMAIN NetworkProviders :
         i <= k /\ FillsField(NetworkProviders[i], f)

NetworkJobs(jobs) == { j \in jobs : j.kind = "network" }

(***************************************************************************)
(* C1  Batch isolation.  A call whose candidates include providers that    *)
(* raise an Exception subclass does not end with such an exception, and    *)
(* when it returns, its fields, sources and conflicts are those of         *)
(* fetch_all on the candidate list without the raising providers.          *)
(***************************************************************************)
C1_BatchIsolation ==
  Finished =>
    /\ Last.kind = "raise" => Last.exc.cls \notin ExceptionClasses
    /\ Last.kind = "value" =>
         LET ref == FetchAllOf(WithoutRaising(providerList, 1))
         IN /\ ref.kind = "value"
            /\ Last.value.fields = ref.value.fields
            /\ Last.value.sources = ref.value.sources
            /\ Last.value.conflicts = ref.value.conflicts

\* A call returned although a fetched provider raised, with fields that
\* another provider supplied.
C1_Witness ==
  /\ pc = "returned"
  /\ \E j \in Last.invoked : Raises(ProviderOfJob(j))
  /\ DOMAIN Last.value.fields # {}
  /\ Last.value.conflicts # <<>>

(***************************************************************************)
(* C2  Failure reporting.  When a call returns, every fetched provider     *)
(* that raised or returned success=False is a key of errors, mapped to     *)
(* its error text when it has one, and errors has no other key.            *)
(***************************************************************************)
C2_FailureReporting ==
  pc = "returned" =>
    /\ \A j \in Last.invoked :
         LET provider == ProviderOfJob(j)
         IN /\ Raises(provider) =>
                 /\ provider.name \in DOMAIN Last.value.errors
                 /\ Last.value.errors[provider.name] = RawOutcome(provider).exc.msg
            /\ ReturnsFailure(provider) =>
                 /\ provider.name \in DOMAIN Last.value.errors
                 /\ RawOutcome(provider).result.error # NoText =>
                      Last.value.errors[provider.name]
                        = RawOutcome(provider).result.error[1]
    /\ \A n \in DOMAIN Last.value.errors :
         \E j \in Last.invoked :
           /\ ProviderOfJob(j).name = n
           /\ ~Succeeds(ProviderOfJob(j))

(***************************************************************************)
(* C3  Two-stage short-circuit.  With stop_on_complete=True, when the      *)
(* successful local results fill every required field, no network          *)
(* candidate is ever fetched and the call returns the merge of the local   *)
(* results.                                                                *)
(***************************************************************************)
\* The results of the successful providers among list[i..], in order.
RECURSIVE SuccessfulResults(_, _)
SuccessfulResults(list, i) ==
  IF i > Len(list) THEN <<>>
  ELSE (IF Succeeds(list[i]) THEN <<RawOutcome(list[i]).result>> ELSE <<>>)
       \o SuccessfulResults(list, i + 1)

C3_ShortCircuit ==
  (stopOnComplete /\ CoveredBy(0)) =>
    /\ NetworkJobs(invoked) = {}
    /\ \A i \in DOMAIN NetworkProviders :
         fetchCount[NetworkProviders[i].name] = 0
    /\ pc = "returned" =>
         Last.value = Merge(mergeStrategy, SuccessfulResults(LocalProviders, 1),
                            ProviderMap(providerList), Last.value.errors)

\* A call returned on the local results alone although it had network
\* candidates.
C3_Witness ==
  /\ pc = "returned"
  /\ stopOnComplete
  /\ CoveredBy(0)
  /\ NetworkProviders # <<>>
  /\ DOMAIN Last.value.fields # {}

(***************************************************************************)
(* C4  Network sequencing.  At most one network fetch is in flight, and a  *)
(* network candidate is started only when every network candidate before   *)
(* it in the list was started and has completed.                           *)
(***************************************************************************)
C4_NetworkSequencing ==
  /\ Cardinality(NetworkJobs(inflight)) <= 1
  /\ \A j \in NetworkJobs(invoked) :
       \A m \in 1..(j.i - 1) :
         /\ Job("network", m) \in invoked
         /\ Job("network", m) \notin inflight

\* The second network candidate is being fetched.
C4_Witness ==
  /\ pc = "stage2"
  /\ Job("network", 2) \in inflight
  /\ Len(results) > 0

(***************************************************************************)
(* C5  Stage 2 early exit.  With stop_on_complete=True a network           *)
(* candidate is fetched only if the candidates fetched before it (the      *)
(* local ones and the network ones before it) do not fill every required   *)
(* field, and the call returns the merge of the successful results of the  *)
(* providers it fetched.                                                   *)
(***************************************************************************)
\* The first k network candidates.
FirstNetwork(k) == SubSeq(NetworkProviders, 1, k)

C5_EarlyExit ==
  stopOnComplete =>
    /\ \A j \in NetworkJobs(invoked) : ~CoveredBy(j.i - 1)
    /\ pc = "returned" =>
         Last.value =
           Merge(mergeStrategy,
                 SuccessfulResults(LocalProviders, 1)
                   \o SuccessfulResults(
                        FirstNetwork(Cardinality(NetworkJobs(Last.invoked))), 1),
                 ProviderMap(providerList), Last.value.errors)

\* A call stopped after a network fetch that completed the coverage, with
\* network candidates left.
C5_Witness ==
  /\ pc = "returned"
  /\ stopOnComplete
  /\ \E k \in DOMAIN NetworkProviders :
       /\ NetworkJobs(Last.invoked) = { Job("network", m) : m \in 1..k }
       /\ CoveredBy(k)
       /\ ~CoveredBy(k - 1)
       /\ k < Len(NetworkProviders)

(***************************************************************************)
(* C6  Completion-order independence.  Every call that returns, returns    *)
(* the AggregatedResult (fields, sources, conflicts, missing, errors) of   *)
(* fetch_all with the local results taken in candidate-list order,         *)
(* whatever the order in which its local fetches completed.                *)
(***************************************************************************)
CandidateList ==
  ResolveProviders(registry, behaviour, ctx, IdTypeArg, providersArg)

C6_OrderIndependence ==
  (Finished /\ Last.kind = "value") =>
    Last.value = FetchAllOf(CandidateList).value

\* A call returned a conflict after its second local fetch completed
\* before its first.
C6_Witness ==
  \E c \in DOMAIN returned :
    /\ returned[c].kind = "value"
    /\ Len(returned[c].order) >= 2
    /\ returned[c].order[1] > returned[c].order[2]
    /\ returned[c].value.conflicts # <<>>

(***************************************************************************)
(* C7  Idempotence.  Two calls with the same registry, provider            *)
(* configuration, context and arguments end the same way and return the    *)
(* same fields, sources and conflicts.                                     *)
(***************************************************************************)
C7_Idempotence ==
  \A c, d \in DOMAIN returned :
    returned[c].config = returned[d].config =>
      /\ returned[c].kind = returned[d].kind
      /\ returned[c].value.fields = returned[d].value.fields
      /\ returned[c].value.sources = returned[d].value.sources
      /\ returned[c].value.conflicts = returned[d].value.conflicts

\* Two calls returned a resolved conflict under the same configuration,
\* one that set_response made, with the local fetches completing in
\* different orders and the counter of the reconfigured provider reset
\* in between.
C7_Witness ==
  /\ Len(returned) >= 2
  /\ returned[1].kind = "value"
  /\ returned[2].kind = "value"
  /\ returned[1].config = returned[2].config
  /\ returned[2].value.conflicts # <<>>
  /\ returned[1].order # returned[2].order
  /\ returned[1].config["abs_sidecar"].impl = "mock"
  /\ Asin \in DOMAIN returned[1].config["abs_sidecar"].responses
  /\ returned[1].config["abs_sidecar"].responses[Asin][1][2] = Str(<<"U">>)
  /\ Cardinality(returned[2].invoked) = 4
  /\ updates = 2
  /\ fetchCount["abs_sidecar"] = 1
  /\ fetchCount["mediainfo"] = 2

(***************************************************************************)
(* The candidates of a field as the spec defines them, from the results    *)
(* handed to _merge: one per successful result that carries the field,     *)
(* unless the value is empty and the provider is not an override.          *)
(***************************************************************************)
ProviderNamed(name) ==
  CHOOSE p \in Range(providerList) : p.name = name

\* None -> 0; string -> its length; list -> its element count; other -> 1
QualityOf(value) ==
  CASE value = NoneV -> 0
    [] value.t = "str" /\ value # NoneV -> Len(value.v)
    [] value.t = "list" -> Len(value.v)
    [] OTHER -> 1

RECURSIVE Offered(_, _)
Offered(f, i) ==
  IF i > Len(results) THEN <<>>
  ELSE LET r == results[i]
           p == ProviderNamed(r.provider)
           has == r.success /\ \E k \in DOMAIN r.fields : r.fields[k][1] = f
           value ==
             r.fields[CHOOSE k \in DOMAIN r.fields : r.fields[k][1] = f][2]
           conf == IF f \in DOMAIN r.confidence THEN r.confidence[f]
                   ELSE DefaultConfidence
       IN (IF has /\ (p.is_override \/ ~EmptyValue(value))
           THEN << [ provider |-> r.provider, value |-> value,
                     confidence |-> conf, priority |-> p.priority,
                     quality |-> QualityOf(value), at |-> i ] >>
           ELSE <<>>)
          \o Offered(f, i + 1)

\* (confidence descending, priority ascending, quality descending,
\* provider name ascending)
ConfidenceBefore(a, b) ==
  \/ a.confidence > b.confidence
  \/ a.confidence = b.confidence /\ a.priority < b.priority
  \/ a.confidence = b.confidence /\ a.priority = b.priority
       /\ a.quality > b.quality
  \/ a.confidence = b.confidence /\ a.priority = b.priority
       /\ a.quality = b.quality /\ NameLess(a.provider, b.provider)

\* (priority ascending, provider name ascending)
PriorityBefore(a, b) ==
  \/ a.priority < b.priority
  \/ a.priority = b.priority /\ NameLess(a.provider, b.provider)

Before(a, b) ==
  IF mergeStrategy = "priority" THEN PriorityBefore(a, b)
  ELSE ConfidenceBefore(a, b)

\* The candidate the conflict resolution selects: the one that comes
\* before every other under the order of the strategy.  Candidates the
\* order does not tell apart (two results of one provider with equal
\* keys) stay in the order they were merged in, as in a stable sort.
Winner(f) ==
  LET c == Offered(f, 1)
  IN c[CHOOSE i \in DOMAIN c :
         \A j \in DOMAIN c :
           j # i => \/ Before(c[i], c[j])
                    \/ ~Before(c[j], c[i]) /\ i < j]

Merged == pc = "returned" /\ Len(returned) > 0

MergedFields == {"title"}

(***************************************************************************)
(* C8  Confidence strategy winner.  Under the "confidence" strategy the    *)
(* value of a field with two or more candidates is the value of the        *)
(* candidate that comes first under (confidence descending, priority       *)
(* ascending, quality descending, provider name ascending), with quality   *)
(* 0 for None, the length of a string or list, and 1 otherwise.  In        *)
(* particular a candidate of strictly highest confidence wins; at equal    *)
(* confidence the strictly lowest priority number wins; at equal           *)
(* confidence and priority the strictly longest string or list wins.       *)
(***************************************************************************)
C8_ConfidenceWinner ==
  (Merged /\ mergeStrategy = "confidence") =>
    \A f \in MergedFields :
      LET c == Offered(f, 1)
          same(a, b) == a.confidence = b.confidence
      IN Len(c) >= 2 =>
           /\ f \in DOMAIN Last.value.fields
           /\ Last.value.fields[f] = Winner(f).value
           /\ \A i \in DOMAIN c :
                /\ (\A j \in DOMAIN c : j # i =>
                      c[i].confidence > c[j].confidence)
                     => Last.value.fields[f] = c[i].value
                /\ (\A j \in DOMAIN c : j # i =>
                      same(c[i], c[j]) /\ c[i].priority < c[j].priority)
                     => Last.value.fields[f] = c[i].value
                /\ (\A j \in DOMAIN c : j # i =>
                      /\ same(c[i], c[j])
                      /\ c[i].priority = c[j].priority
                      /\ c[i].value.t \in {"str", "list"}
                      /\ c[j].value.t \in {"str", "list"}
                      /\ Len(c[i].value.v) > Len(c[j].value.v))
                     => Last.value.fields[f] = c[i].value

\* Three candidates; the winner was not merged first, ties with another
\* candidate on confidence and priority and beats it on quality, and a
\* third candidate has a lower confidence.
C8_Witness ==
  /\ Merged /\ mergeStrategy = "confidence"
  /\ LET c == Offered("title", 1)
         w == Winner("title")
     IN /\ Len(c) = 3
        /\ w.at # 1
        /\ \E j \in DOMAIN c :
             /\ c[j].confidence = w.confidence
             /\ c[j].priority = w.priority
             /\ c[j].quality < w.quality
        /\ \E j \in DOMAIN c : c[j].confidence < w.confidence
        /\ Last.value.fields["title"] = w.value

\* The title a result carries, if any.
HasField(r, f) == \E k \in DOMAIN r.fields : r.fields[k][1] = f
FieldOf(r, f) == r.fields[CHOOSE k \in DOMAIN r.fields : r.fields[k][1] = f][2]

\* The values recorded for a provider in the conflicts of a field.
ConflictsOf(f) ==
  { Last.value.conflicts[k] : k \in { k \in DOMAIN Last.value.conflicts :
                                        Last.value.conflicts[k].field = f } }

(***************************************************************************)
(* C9  Override can clear.  An empty value (None, "" or []) of a           *)
(* successful override provider is a merge candidate: when it is the only  *)
(* candidate of the field, the field is in fields with that empty value,   *)
(* the provider is its source and the field is not in missing; among       *)
(* several candidates the provider is recorded in the conflict's values    *)
(* with a value it offered.  The same empty value of a provider that is    *)
(* not an override is dropped: the provider is the source of the field     *)
(* and is in the values of a conflict of the field only through a kept     *)
(* value of another of its results, and a field with no other candidate    *)
(* is absent from fields and sources and listed in missing.                *)
(***************************************************************************)
C9_OverrideCanClear ==
  Merged =>
    \A f \in MergedFields : \A i \in DOMAIN results :
      LET r == results[i]
          c == Offered(f, 1)
          out == Last.value
      IN (r.success /\ HasField(r, f) /\ EmptyValue(FieldOf(r, f))) =>
           IF ProviderNamed(r.provider).is_override
           THEN /\ \E j \in DOMAIN c :
                     c[j].provider = r.provider /\ c[j].value = FieldOf(r, f)
                /\ Len(c) = 1 =>
                     /\ f \in DOMAIN out.fields
                     /\ out.fields[f] = FieldOf(r, f)
                     /\ f \in DOMAIN out.sources
                     /\ out.sources[f] = r.provider
                     /\ f \notin out.missing
                     /\ ConflictsOf(f) = {}
                /\ Len(c) > 1 =>
                     \E x \in ConflictsOf(f) :
                       /\ r.provider \in DOMAIN x.values
                       /\ \E j \in DOMAIN c :
                            /\ c[j].provider = r.provider
                            /\ c[j].value = x.values[r.provider]
           ELSE /\ (f \in DOMAIN out.sources /\ out.sources[f] = r.provider) =>
                     \E j \in DOMAIN c :
                       /\ c[j].provider = r.provider
                       /\ c[j].value = out.fields[f]
                /\ \A x \in ConflictsOf(f) :
                     r.provider \in DOMAIN x.values =>
                       \E j \in DOMAIN c :
                         /\ c[j].provider = r.provider
                         /\ c[j].value = x.values[r.provider]
                /\ Len(c) = 0 =>
                     /\ f \notin DOMAIN out.fields
                     /\ f \notin DOMAIN out.sources
                     /\ f \in out.missing

\* An override's empty title is the only candidate, next to the same empty
\* title of a provider that is not an override, and the title is cleared.
C9_Witness ==
  /\ Merged
  /\ \E i, j \in DOMAIN results :
       /\ HasField(results[i], "title") /\ HasField(results[j], "title")
       /\ EmptyValue(FieldOf(results[i], "title"))
       /\ FieldOf(results[j], "title") = FieldOf(results[i], "title")
       /\ ProviderNamed(results[i].provider).is_override
       /\ ~ProviderNamed(results[j].provider).is_override
       /\ j < i
  /\ Len(Offered("title", 1)) = 1
  /\ "title" \in DOMAIN Last.value.fields
  /\ EmptyValue(Last.value.fields["title"])
  /\ "title" \notin Last.value.missing

(***************************************************************************)
(* C10  Source attribution.  For every key f of fields, sources[f] is the  *)
(* name of the winning provider, the one whose candidate the conflict      *)
(* resolution selected (or the only candidate), also when several          *)
(* providers supplied equal values for f.                                  *)
(***************************************************************************)
C10_SourceIsWinner ==
  Merged =>
    \A f \in DOMAIN Last.value.fields :
      /\ f \in DOMAIN Last.value.sources
      /\ Last.value.sources[f] = Winner(f).provider

(***************************************************************************)
(* C11  Conflicts only on disagreement.  Every FieldConflict of a merge    *)
(* records at least two providers with differing values: a field on which  *)
(* all contributing providers supplied the same value has no               *)
(* FieldConflict.                                                          *)
(***************************************************************************)
C11_ConflictsOnlyOnDisagreement ==
  Merged =>
    /\ \A k \in DOMAIN Last.value.conflicts :
         \E p, q \in DOMAIN Last.value.conflicts[k].values :
           Last.value.conflicts[k].values[p] # Last.value.conflicts[k].values[q]
    /\ \A f \in MergedFields :
         LET c == Offered(f, 1)
         IN (\A i, j \in DOMAIN c : c[i].value = c[j].value)
              => ConflictsOf(f) = {}

\* The provider's fetch ends in the ValueError of set_field.
RaisesInvalidConfidence(provider) ==
  /\ RawOutcome(provider).kind = "raise"
  /\ RawOutcome(provider).exc.cls = "ValueError"

(***************************************************************************)
(* C12  Fail-fast on invalid confidence.  When a fetched provider's        *)
(* set_field raises ValueError for a confidence outside [0.0, 1.0], the    *)
(* call does not return: it ends with that ValueError, and no call         *)
(* returns a result that lists the provider in errors.                     *)
(***************************************************************************)
C12_FailFastInvalidConfidence ==
  Finished =>
    \A j \in Last.invoked :
      RaisesInvalidConfidence(ProviderOfJob(j)) =>
        /\ Last.kind = "raise"
        /\ Last.exc.cls = "ValueError"

(***************************************************************************)
(* _merge on results with several fields: FieldsSpec hands _merge results  *)
(* that carry a title, genre lists, a rating that is a float or          *)
(* float("nan"), and a field name outside the vocabulary ("mood"), which   *)
(* set_field and _merge accept unchecked.                                  *)
(***************************************************************************)
FieldsResultsOf(name) ==
  LET e == EmptyResult(name)
      g == Lst(<<"g">>)
      hg == Lst(<<"h", "g">>)
  IN { e,
       SetField(e, "genres", g, DefaultConfidence),
       SetField(e, "genres", hg, DefaultConfidence),
       SetField(e, "genres", hg, 5),
       SetField(SetField(e, "title", Str(<<"T">>), DefaultConfidence),
                "genres", Lst(<<"g", "h">>), DefaultConfidence),
       SetField(e, "rating", NaN, DefaultConfidence),
       SetField(e, "rating", Flt(<<"4.5">>), 5),
       SetField(e, "mood", Str(<<"x">>), DefaultConfidence),
       SetField(SetField(e, "genres", g, DefaultConfidence),
                "mood", Str(<<"y">>), 5) }

FieldsNext ==
  \/ \E name \in MergeNames : \E result \in FieldsResultsOf(name) :
       AppendResult(name, result)
  \/ MergeCall

FieldsSpec == MergeInit /\ [][FieldsNext]_vars

(***************************************************************************)
(* C13  Closed vocabulary.  Every key of fields and of sources, and the    *)
(* field of every FieldConflict, is a member of FieldName, whatever field  *)
(* names the providers' results contain.                                   *)
(***************************************************************************)
C13_ClosedVocabulary ==
  Merged =>
    /\ DOMAIN Last.value.fields \subseteq FieldName
    /\ DOMAIN Last.value.sources \subseteq FieldName
    /\ \A k \in DOMAIN Last.value.conflicts :
         Last.value.conflicts[k].field \in FieldName

\* The elements of the lists the candidates of a field supplied.
RECURSIVE ElementsOf(_, _)
ElementsOf(c, i) ==
  IF i > Len(c) THEN {}
  ELSE (IF c[i].value.t = "list" THEN Range(c[i].value.v) ELSE {})
       \cup ElementsOf(c, i + 1)

(***************************************************************************)
(* C14  Genres custom merge.  When two or more successful providers        *)
(* supply genres, fields["genres"] is the de-duplicated union of their     *)
(* lists: a list without repetitions whose elements are exactly the        *)
(* elements of all the providers' lists.                                   *)
(***************************************************************************)
C14_GenresUnion ==
  Merged =>
    LET c == Offered("genres", 1)
    IN Len(c) >= 2 =>
         /\ "genres" \in DOMAIN Last.value.fields
         /\ Last.value.fields["genres"].t = "list"
         /\ Range(Last.value.fields["genres"].v) = ElementsOf(c, 1)
         /\ Cardinality(Range(Last.value.fields["genres"].v))
              = Len(Last.value.fields["genres"].v)

\* The names of a non-empty `providers` argument.
NamesAsked ==
  IF providersArg # <<>> /\ providersArg[1] # <<>>
  THEN Range(providersArg[1]) ELSE {}

\* The call has no candidate: every name asked for is unknown to the
\* registry, or no name is asked for and no registered provider can look
\* the context up.
NoCandidate ==
  IF NamesAsked # {}
  THEN NamesAsked \cap RegistryNames = {}
  ELSE \A i \in DOMAIN registry :
         ~CanLookup(behaviour[registry[i].name], ctx, IdTypeArg)

(***************************************************************************)
(* C15  No candidates.  A call without candidates fetches nothing, raises  *)
(* nothing and returns an AggregatedResult whose missing is the whole      *)
(* vocabulary and whose fields, sources, conflicts and errors are empty;   *)
(* a name of `providers` that the registry does not know is never a key    *)
(* of errors.                                                              *)
(***************************************************************************)
C15_NoCandidates ==
  Finished =>
    /\ NoCandidate =>
         /\ Last.kind = "value"
         /\ Last.invoked = {}
         /\ \A n \in DOMAIN fetchCount : fetchCount[n] = 0
         /\ Last.value.missing = FieldName
         /\ DOMAIN Last.value.fields = {}
         /\ DOMAIN Last.value.sources = {}
         /\ Last.value.conflicts = <<>>
         /\ DOMAIN Last.value.errors = {}
    /\ Last.kind = "value" =>
         DOMAIN Last.value.errors \cap (NamesAsked \ RegistryNames) = {}

\* A second call that asked for unknown names only, with providers that
\* could have answered, returned the empty result.
C15_Witness ==
  /\ Finished /\ call = 2
  /\ NamesAsked # {} /\ NoCandidate
  /\ Truthy(Identifier(ctx, "asin"))
  /\ Last.kind = "value"
  /\ Last.value.missing = FieldName
  /\ Last.invoked = {}

(***************************************************************************)
(* C16  Single-provider pass-through.  When exactly one successful         *)
(* provider supplies a kept value for a field, fields holds that value     *)
(* unchanged, sources names that provider and no FieldConflict is          *)
(* recorded for the field, whatever the provider's confidence and          *)
(* priority and whatever the merge strategy.                               *)
(***************************************************************************)
C16_SinglePassThrough ==
  Merged =>
    \A f \in MergedFields :
      LET c == Offered(f, 1)
          suppliers == { c[i].provider : i \in DOMAIN c }
      IN Cardinality(suppliers) = 1 =>
           /\ f \in DOMAIN Last.value.fields
           /\ \A i \in DOMAIN c : Last.value.fields[f] = c[i].value
           /\ f \in DOMAIN Last.value.sources
           /\ Last.value.sources[f] \in suppliers
           /\ ConflictsOf(f) = {}
           /\ f \notin Last.value.missing

(***************************************************************************)
(* C17  Priority strategy.  Under the "priority" strategy the value of a   *)
(* field with two or more candidates is the value of the candidate with    *)
(* the smallest priority number, ties broken by ascending provider name    *)
(* (a candidate that no other candidate precedes in priority or, at equal  *)
(* priority, in name), whatever the confidences and the qualities, and     *)
(* the one FieldConflict of the field has the reason "priority".           *)
(***************************************************************************)
C17_PriorityStrategy ==
  (Merged /\ mergeStrategy = "priority") =>
    \A f \in MergedFields :
      LET c == Offered(f, 1)
      IN Len(c) >= 2 =>
           /\ f \in DOMAIN Last.value.fields
           /\ \E i \in DOMAIN c :
                /\ Last.value.fields[f] = c[i].value
                /\ \A j \in DOMAIN c :
                     j # i =>
                       /\ c[i].priority <= c[j].priority
                       /\ c[i].priority = c[j].priority
                            => ~NameLess(c[j].provider, c[i].provider)
           /\ Cardinality(ConflictsOf(f)) = 1
           /\ \A x \in ConflictsOf(f) :
                /\ x.resolution_reason = "priority"
                /\ x.resolved_value = Last.value.fields[f]

\* The winner was merged last, shares its priority with a candidate of a
\* later name, and has a lower confidence and a lower quality than a
\* candidate it beats.
C17_Witness ==
  /\ Merged /\ mergeStrategy = "priority"
  /\ LET c == Offered("title", 1)
         w == Winner("title")
     IN /\ Len(c) = 3
        /\ w.at = 3
        /\ \E j \in DOMAIN c :
             /\ c[j].provider # w.provider
             /\ c[j].priority = w.priority
             /\ c[j].confidence > w.confidence
             /\ c[j].quality > w.quality
        /\ Last.value.fields["title"] = w.value
        /\ \A j \in DOMAIN c : c[j].provider # w.provider => c[j].value # w.value

(***************************************************************************)
(* ProviderResult on its own: ResultSpec creates a result without fields   *)
(* (the constructor, ProviderResult.empty or ProviderResult.failure) and   *)
(* calls set_field on it up to MaxSets times.  `results` holds the one     *)
(* result, `returned` how each set_field call ended.                       *)
(***************************************************************************)
ResultsCreated ==
  { ProviderResultOf("mock", TRUE, <<>>, [x \in {} |-> 0], NoText),
    EmptyResult("mock"),
    Failure("mock", "not found") }

SetFieldNames == {"title", "genres"}
SetFieldValues == { NoneV, Str(<<"T">>) }
\* Confidences in tenths: -0.1, 0.0, 0.5, 1.0 and 1.1
SetFieldConfidences == {-1, 0, 5, DefaultConfidence, DefaultConfidence + 1}

ResultInit ==
  /\ registry = Registry
  /\ updates = 0
  /\ behaviour = [n \in RegistryNames |-> Unconfigured]
  /\ ctx = [ids |-> "asin" :> Asin]
  /\ mergeStrategy = "confidence"
  /\ providersArg = <<>>
  /\ stopOnComplete = TRUE
  /\ requiredArg = <<>>
  /\ pc = "building"
  /\ call = 0
  /\ providerList = <<>>
  /\ stage1 = <<>>
  /\ entered = <<>>
  /\ completed = <<>>
  /\ \E r \in ResultsCreated : results = <<r>>
  /\ errors = [x \in {} |-> ""]
  /\ invoked = {}
  /\ inflight = {}
  /\ fetchCount = [n \in RegistryNames |-> 0]
  /\ returned = <<>>
  /\ retry = RetryUnused

\* result.set_field(name, value, confidence)
SetFieldCall(name, value, confidence) ==
  /\ pc = "building"
  /\ call < MaxSets
  /\ call' = call + 1
  /\ LET out == SetFieldOutcome(results[1], name, value, confidence)
     IN /\ results' = <<out.result>>
        /\ returned' = Append(returned, [kind |-> out.kind, exc |-> out.exc,
                                         confidence |-> confidence])
  /\ UNCHANGED << pc, providerList, stage1, entered, completed, errors, invoked,
                  inflight, fetchCount >>
  /\ UNCHANGED cfgVars
  /\ UNCHANGED retry

ResultNext ==
  \E name \in SetFieldNames, value \in SetFieldValues,
     confidence \in SetFieldConfidences :
    SetFieldCall(name, value, confidence)

ResultSpec == ResultInit /\ [][ResultNext]_vars

\* The keys of the fields map of a result.
FieldKeys(r) == { r.fields[i][1] : i \in DOMAIN r.fields }

(***************************************************************************)
(* C18  ProviderResult field/confidence invariant.  A result created       *)
(* without fields has, after any sequence of set_field calls, the same     *)
(* keys in fields and in confidence and only confidences in [0.0, 1.0];    *)
(* a set_field call with a confidence outside [0.0, 1.0] raises            *)
(* ValueError, every other call returns, and a call that raises leaves     *)
(* both maps unchanged.                                                    *)
(***************************************************************************)
C18_ResultInvariant ==
  /\ [](pc = "building" =>
          /\ FieldKeys(results[1]) = DOMAIN results[1].confidence
          /\ \A f \in DOMAIN results[1].confidence :
               /\ 0 <= results[1].confidence[f]
               /\ results[1].confidence[f] <= 10
          /\ \A k \in DOMAIN returned :
               /\ returned[k].kind = "raise"
                    <=> (returned[k].confidence < 0 \/ returned[k].confidence > 10)
               /\ returned[k].kind = "raise" => returned[k].exc.cls = "ValueError")
  /\ [][(pc = "building" /\ Len(returned') > Len(returned)
           /\ returned'[Len(returned')].kind = "raise")
          => (results'[1].fields = results[1].fields
                /\ results'[1].confidence = results[1].confidence)]_vars

\* A result with two fields, one set at confidence 0.0, after a call that
\* raised for a confidence below 0.0 on a field already set.
C18_Witness ==
  /\ pc = "building"
  /\ Len(returned) = 3
  /\ returned[3].kind = "raise"
  /\ returned[3].confidence < 0
  /\ Len(results[1].fields) = 2
  /\ \E f \in DOMAIN results[1].confidence : results[1].confidence[f] = 0
  /\ ~results[1].success

\* Number of fetches the running call has started on the provider `name`.
FetchesInCall(name) == Occurrences(providerList, invoked, name)

(***************************************************************************)
(* C19  No retry in the aggregator.  Within one fetch_all call the fetch   *)
(* of each candidate provider is invoked at most once; in particular a     *)
(* provider whose fetch failed or raised is not fetched again in that      *)
(* call.                                                                   *)
(***************************************************************************)
C19_NoRetry ==
  pc # "idle" => \A name \in RegistryNames : FetchesInCall(name) <= 1

\* The names of the candidates of the running call.
CandidateNames == { providerList[i].name : i \in DOMAIN providerList }

(***************************************************************************)
(* C20  stop_on_complete=False disables skipping.  A call with             *)
(* stop_on_complete=False starts no network fetch before the gathered      *)
(* local fetches are done, and when it returns, fetch has been invoked     *)
(* exactly once on every local and every network candidate, whatever       *)
(* fields the earlier results filled.                                      *)
(***************************************************************************)
C20_NoSkipping ==
  ~stopOnComplete =>
    /\ pc = "stage1" => NetworkJobs(invoked) = {}
    /\ pc = "returned" =>
         \A name \in CandidateNames : FetchesInCall(name) = 1

(***************************************************************************)
(* retry_with_backoff on its own: RetrySpec decorates a function whose     *)
(* calls are scripted (return, raise a listed or an unlisted exception)    *)
(* and invokes the wrapper once.                                           *)
(***************************************************************************)

\* What a call of func can do.
FuncOutcomes ==
  { FuncReturns("success"),
    FuncRaises("ConnectionError", "Network error"),
    FuncRaises("ValueError", "Not retryable"),
    FuncRaises("KeyboardInterrupt", "") }

\* func: call number -> what that call does
FuncScripts == [1..MaxAttempts -> FuncOutcomes]

\* exceptions=...
ExceptionTuples ==
  { <<"Exception">>, <<"ConnectionError">>, <<"OSError">>,
    <<"ValueError", "TypeError">> }

\* The values random.random() returns, in hundredths.
RandomDraws == {0, 50, 99}

RetryInit ==
  /\ registry = Registry
  /\ updates = 0
  /\ behaviour = [n \in RegistryNames |-> Unconfigured]
  /\ ctx = [ids |-> "asin" :> Asin]
  /\ mergeStrategy = "confidence"
  /\ providersArg = <<>>
  /\ stopOnComplete = TRUE
  /\ requiredArg = <<>>
  /\ pc = "retrying"
  /\ call = 0
  /\ providerList = <<>>
  /\ stage1 = <<>>
  /\ entered = <<>>
  /\ completed = <<>>
  /\ results = <<>>
  /\ errors = [x \in {} |-> ""]
  /\ invoked = {}
  /\ inflight = {}
  /\ fetchCount = [n \in RegistryNames |-> 0]
  /\ returned = <<>>
  /\ \E max_attempts \in 0..MaxAttempts, jitter \in BOOLEAN,
        exceptions \in ExceptionTuples,
        on_retry \in {"none", "records", "raises"}, func \in FuncScripts :
       retry = [ args |-> RetryArgs(max_attempts, 10000, 30000, 2, jitter,
                                    exceptions, on_retry),
                 func |-> func,
                 state |-> WrapperIdle ]

\* wrapper(*args, **kwargs) is called: line 50 and the loop header.
WrapperCall ==
  /\ pc = "retrying"
  /\ retry.state.pc = "idle"
  /\ retry' = [retry EXCEPT !.state =
       IF retry.args.max_attempts < 1
       THEN LoopExit(retry.state)
       ELSE [retry.state EXCEPT !.pc = "running", !.attempt = 1]]
  /\ UNCHANGED fetchVars

\* One iteration of the loop, up to the end of time.sleep(delay).
Attempt ==
  /\ pc = "retrying"
  /\ retry.state.pc = "running"
  /\ \E r \in RandomDraws :
       retry' = [retry EXCEPT !.state =
         Iteration(retry.args, retry.state,
                   retry.func[retry.state.calls + 1], r)]
  /\ UNCHANGED fetchVars

RetryNext == WrapperCall \/ Attempt

RetrySpec == RetryInit /\ [][RetryNext]_vars

\* The wrapper invocation is over.
WrapperDone == retry.state.pc \in {"returned", "raised"}

\* The k-th call of func raised an exception the except clause catches.
FailedListed(k) ==
  /\ retry.func[k].kind = "raise"
  /\ \E i \in DOMAIN retry.args.exceptions :
       IsSubclass(retry.func[k].cls, retry.args.exceptions[i])

\* The k-th call of func raised an exception that is an instance of none
\* of the listed classes.
FailedUnlisted(k) ==
  /\ retry.func[k].kind = "raise"
  /\ \A i \in DOMAIN retry.args.exceptions :
       ~IsSubclass(retry.func[k].cls, retry.args.exceptions[i])


(***************************************************************************)
(* C21  Retry attempt protocol.  With max_attempts = n >= 1 the wrapped    *)
(* function is called at most n times per wrapper invocation.  The         *)
(* wrapper returns the value of the first attempt that succeeds and makes  *)
(* no further call.  on_retry is called once after each failed attempt     *)
(* that is not the n-th, with the exception of that attempt and attempt    *)
(* numbers 1, 2, ..., before the sleep, and never after the n-th failed    *)
(* attempt.  Each on_retry call that returns is followed by one sleep and  *)
(* another attempt, so a wrapper whose callbacks all returned has called   *)
(* on_retry calls - 1 times, and if all n attempts raise a listed          *)
(* exception it re-raises the exception of the n-th attempt after exactly  *)
(* n calls.  An on_retry call that raises ends the wrapper with the        *)
(* exception of the callback: no sleep and no further attempt follow, and  *)
(* on_retry has then been called as often as the function.                 *)
(***************************************************************************)
C21_AttemptProtocol ==
  LET st == retry.state
      n == retry.args.max_attempts
      callbackRaised == st.pc = "raised" /\ st.exc = CallbackError
  IN (pc = "retrying" /\ n >= 1) =>
       /\ st.calls <= n
       /\ st.pc = "returned" =>
            /\ retry.func[st.calls].kind = "return"
            /\ st.value = retry.func[st.calls].value
            /\ \A k \in 1..(st.calls - 1) : FailedListed(k)
       /\ (WrapperDone /\ \A k \in 1..n : FailedListed(k)) =>
            /\ st.pc = "raised"
            /\ \/ /\ ~callbackRaised
                  /\ st.calls = n
                  /\ st.exc = ExcOf(retry.func[n], n)
               \/ /\ callbackRaised
                  /\ st.calls < n
       /\ callbackRaised <=>
            /\ WrapperDone
            /\ retry.args.on_retry = "raises"
            /\ st.calls < n
            /\ FailedListed(st.calls)
       /\ \A k \in DOMAIN st.retried :
            /\ k < n
            /\ st.retried[k].attempt = k
            /\ st.retried[k].exc = ExcOf(retry.func[k], k)
            /\ FailedListed(k)
       /\ retry.args.on_retry = "none" => st.retried = <<>>
       /\ retry.args.on_retry # "none" =>
            /\ st.pc = "running" => Len(st.retried) = st.calls
            /\ WrapperDone =>
                 Len(st.retried) =
                   (IF callbackRaised THEN st.calls ELSE st.calls - 1)
            /\ Len(st.slept) =
                 (IF callbackRaised THEN Len(st.retried) - 1
                  ELSE Len(st.retried))

(***************************************************************************)
(* C21  Retry attempt protocol, as first stated.  Whatever on_retry does,  *)
(* n failed listed attempts end in the exception of the n-th attempt       *)
(* after exactly n calls, and a finished wrapper has called on_retry       *)
(* calls - 1 times, never after the final failed attempt.                  *)
(***************************************************************************)
C21_CallbackAlwaysRetries ==
  LET st == retry.state
      n == retry.args.max_attempts
  IN (pc = "retrying" /\ n >= 1) =>
       /\ st.calls <= n
       /\ st.pc = "returned" =>
            /\ retry.func[st.calls].kind = "return"
            /\ st.value = retry.func[st.calls].value
            /\ \A k \in 1..(st.calls - 1) : FailedListed(k)
       /\ (WrapperDone /\ \A k \in 1..n : FailedListed(k)) =>
            /\ st.pc = "raised"
            /\ st.calls = n
            /\ st.exc = ExcOf(retry.func[n], n)
       /\ retry.args.on_retry # "none" =>
            /\ WrapperDone => Len(st.retried) = st.calls - 1
            /\ \A k \in DOMAIN st.retried :
                 /\ st.retried[k].attempt = k
                 /\ st.retried[k].exc = ExcOf(retry.func[k], k)
                 /\ FailedListed(k)
       /\ retry.args.on_retry = "none" => st.retried = <<>>

\* After three calls that each raised a ConnectionError, listed through
\* its base class OSError, the wrapper re-raised the third one; on_retry
\* was called twice.
C21_Witness ==
  /\ pc = "retrying"
  /\ retry.args.max_attempts = 3
  /\ retry.args.exceptions = <<"OSError">>
  /\ retry.args.on_retry = "records"
  /\ retry.state.pc = "raised"
  /\ retry.state.calls = 3
  /\ retry.state.exc = [cls |-> "ConnectionError", msg |-> "Network error", id |-> 3]
  /\ Len(retry.state.retried) = 2


(***************************************************************************)
(* C22  Retry only listed exceptions.  When a call of the wrapped          *)
(* function raises an exception that is not an instance of a class in      *)
(* `exceptions`, the wrapper propagates that exception from the attempt    *)
(* in which it was raised: no further attempt, no on_retry call and no     *)
(* sleep follow it, whichever attempt number that is.                      *)
(***************************************************************************)
C22_OnlyListedRetried ==
  LET st == retry.state
  IN pc = "retrying" =>
       \A k \in 1..MaxAttempts :
         (st.calls >= k /\ FailedUnlisted(k)) =>
           /\ st.pc = "raised"
           /\ st.exc = ExcOf(retry.func[k], k)
           /\ st.calls = k
           /\ Len(st.slept) = k - 1
           /\ Len(st.retried) =
                (IF retry.args.on_retry = "none" THEN 0 ELSE k - 1)

\* The second attempt raised KeyboardInterrupt, which (Exception,) does not
\* list, after a first attempt that was retried: the wrapper raised it
\* after two calls, one on_retry call and one sleep.
C22_Witness ==
  /\ pc = "retrying"
  /\ retry.args.exceptions = <<"Exception">>
  /\ retry.args.max_attempts = 3
  /\ retry.args.on_retry = "records"
  /\ FailedUnlisted(2)
  /\ retry.state.pc = "raised"
  /\ retry.state.exc.cls = "KeyboardInterrupt"
  /\ retry.state.calls = 2
  /\ Len(retry.state.retried) = 1
  /\ Len(retry.state.slept) = 1


\* The gather has entered the fetch of every local candidate.
AllLocalStarted == Cardinality(LocalJobs(invoked)) = Len(LocalProviders)

\* The local fetches of the running call that have not completed.
LocalInFlight == { j \in inflight : j.kind = "local" }

(***************************************************************************)
(* C23  Stage ordering.  Once fetch_all has been called, fetch has been    *)
(* invoked exactly once on every local candidate, whatever the other       *)
(* local fetches do, and no network provider's fetch is started while a    *)
(* local fetch started in Stage 1 has not completed.                       *)
(***************************************************************************)
C23_StageOrdering ==
  pc \in {"stage1", "stage2", "returned", "raised"} =>
    /\ \A i \in DOMAIN LocalProviders :
         /\ FetchesInCall(LocalProviders[i].name) <= 1
         /\ AllLocalStarted => FetchesInCall(LocalProviders[i].name) = 1
    /\ pc # "stage1" => AllLocalStarted
    /\ LocalInFlight # {} => NetworkJobs(invoked) = {}


\* The candidate that comes second under the order of the strategy, for a
\* field with two or more candidates.
RunnerUp(f) ==
  LET c == Offered(f, 1)
      w == Winner(f)
  IN c[CHOOSE i \in DOMAIN c :
         /\ c[i] # w
         /\ \A j \in DOMAIN c :
              (j # i /\ c[j] # w) => \/ Before(c[i], c[j])
                                     \/ ~Before(c[j], c[i]) /\ i < j]

(***************************************************************************)
(* C24  Resolution reason.  Under the "confidence" strategy the            *)
(* resolution_reason of the FieldConflict of a field names the criterion   *)
(* that distinguished the winner from the runner-up, the first and second  *)
(* candidate in sort order: "confidence" if their confidences differ,      *)
(* else "priority" if their priorities differ, else "quality".             *)
(***************************************************************************)
C24_ResolutionReason ==
  (Merged /\ mergeStrategy = "confidence") =>
    \A f \in MergedFields :
      Len(Offered(f, 1)) >= 2 =>
        LET w == Winner(f)
            r == RunnerUp(f)
            reason == IF w.confidence # r.confidence THEN "confidence"
                      ELSE IF w.priority # r.priority THEN "priority"
                      ELSE "quality"
        IN /\ ConflictsOf(f) # {}
           /\ \A x \in ConflictsOf(f) : x.resolution_reason = reason

\* Three candidates: winner and runner-up share the confidence and differ
\* in priority, the third has a lower confidence; the reason recorded is
\* "priority".
C24_Witness ==
  /\ Merged /\ mergeStrategy = "confidence"
  /\ Len(Offered("title", 1)) = 3
  /\ Winner("title").confidence = RunnerUp("title").confidence
  /\ Winner("title").priority < RunnerUp("title").priority
  /\ \E i \in 1..3 : Offered("title", 1)[i].confidence < Winner("title").confidence
  /\ \E x \in ConflictsOf("title") : x.resolution_reason = "priority"


\* The fetches of the running call that have completed.
CompletedJobs == invoked \ inflight

\* The fields of a provider that count as filled under the rule: none of
\* a provider that raised or failed, every field in the result of a
\* successful override, the fields with a non-empty value in the result of
\* another successful provider.
CountedFields(provider) ==
  IF ~Succeeds(provider) THEN {}
  ELSE LET fields == RawOutcome(provider).result.fields
       IN { fields[i][1] : i \in
              { k \in DOMAIN fields :
                  provider.is_override \/ ~EmptyValue(fields[k][2]) } }

\* A local override candidate succeeds with an empty value for f.
LocalOverrideClears(f) ==
  \E i \in DOMAIN LocalProviders :
    /\ LocalProviders[i].is_override
    /\ Succeeds(LocalProviders[i])
    /\ HasField(RawOutcome(LocalProviders[i]).result, f)
    /\ EmptyValue(FieldOf(RawOutcome(LocalProviders[i]).result, f))

(***************************************************************************)
(* C25  Required-fields coverage rule.  In the coverage check a field      *)
(* counts as filled iff the result of some successful override provider    *)
(* contains it, with any value (even None, "" or []), or the result of     *)
(* some successful provider that is not an override contains it with a     *)
(* non-empty value; an empty value of a non-override and any result of a   *)
(* failed provider never count.  So a local override provider that emits   *)
(* an empty title satisfies required_fields = ["title"], and with          *)
(* stop_on_complete=True no network provider is fetched.                   *)
(***************************************************************************)
C25_CoverageRule ==
  /\ pc \in {"stage2", "returned"} =>
       GetFilledFields(results, ProviderMap(providerList))
         = UNION { CountedFields(ProviderOfJob(j)) : j \in CompletedJobs }
  /\ (pc # "idle" /\ stopOnComplete /\ Required(requiredArg) = {"title"}
        /\ LocalOverrideClears("title"))
       => NetworkJobs(invoked) = {}

\* A call with network candidates returned on the empty title of the local
\* override alone, next to a local provider whose title is None.
C25_Witness ==
  /\ pc = "returned"
  /\ stopOnComplete
  /\ Required(requiredArg) = {"title"}
  /\ LocalOverrideClears("title")
  /\ \A i \in DOMAIN LocalProviders : ~LocalProviders[i].is_override =>
       /\ Succeeds(LocalProviders[i])
       /\ ~FillsField(LocalProviders[i], "title")
       /\ HasField(RawOutcome(LocalProviders[i]).result, "title")
  /\ Len(LocalProviders) = 2
  /\ NetworkProviders # <<>>
  /\ NetworkJobs(invoked) = {}
  /\ GetFilledFields(results, ProviderMap(providerList)) = {"title", "genres"}


\* The positions in conflicts of the FieldConflicts of field f.
ConflictPositions(f) ==
  { k \in DOMAIN Last.value.conflicts : Last.value.conflicts[k].field = f }

(***************************************************************************)
(* C26  Conflict audit completeness.  For every field with two or more     *)
(* candidates after filtering, conflicts holds exactly one FieldConflict   *)
(* of that field; its values map has the value of every contributing       *)
(* provider and no other entry, its resolved_value equals fields[field]    *)
(* and its resolution_reason is "confidence", "priority" or "quality".  A  *)
(* field with fewer than two candidates has no FieldConflict.              *)
(***************************************************************************)
C26_ConflictAudit ==
  Merged =>
    /\ \A k \in DOMAIN Last.value.conflicts :
         Last.value.conflicts[k].field \in MergedFields
    /\ \A f \in MergedFields :
         LET c == Offered(f, 1)
         IN IF Len(c) >= 2
            THEN /\ Cardinality(ConflictPositions(f)) = 1
                 /\ \A x \in ConflictsOf(f) :
                      /\ DOMAIN x.values = { c[i].provider : i \in DOMAIN c }
                      /\ \A i \in DOMAIN c : x.values[c[i].provider] = c[i].value
                      /\ f \in DOMAIN Last.value.fields
                      /\ x.resolved_value = Last.value.fields[f]
                      /\ x.resolution_reason \in {"confidence", "priority", "quality"}
            ELSE ConflictPositions(f) = {}


(***************************************************************************)
(* C27  Missing accounting.  In every AggregatedResult fetch_all returns,  *)
(* missing holds exactly the canonical field names that are not keys of    *)
(* fields: missing and the keys of fields are disjoint and every           *)
(* canonical field is in exactly one of them.  The errors of the result    *)
(* are the error map collected during fetching, unchanged by the merge.    *)
(***************************************************************************)
C27_MissingAccounting ==
  /\ \A c \in DOMAIN returned :
       returned[c].kind = "value" =>
         LET out == returned[c].value
         IN /\ out.missing = { f \in FieldName : f \notin DOMAIN out.fields }
            /\ out.missing \cap DOMAIN out.fields = {}
            /\ \A f \in FieldName :
                 (f \in out.missing) # (f \in DOMAIN out.fields)
  /\ pc = "returned" => Last.value.errors = errors

\* A call returned title and genres, the other canonical fields missing,
\* and the error of a provider that failed.
C27_Witness ==
  /\ pc = "returned"
  /\ DOMAIN Last.value.fields = {"title", "genres"}
  /\ Cardinality(Last.value.missing) = Cardinality(FieldName) - 2
  /\ DOMAIN Last.value.errors # {}
  /\ providerList # <<>>


(***************************************************************************)
(* Progress.  A fetch that was invoked eventually completes (the premise   *)
(* of the termination claim), and fetch_all itself goes on once the        *)
(* awaited fetches are done.  Nothing obliges the caller to call again.    *)
(***************************************************************************)
\* AfterStage1 can be taken: gather has every result.
AfterStage1Enabled ==
  pc = "stage1" /\ Len(completed) = Len(LocalProviders) /\ FailedAt = {}

\* NetworkDone(k) can be taken for some k: a network fetch is awaited.
NetworkDoneEnabled == pc = "stage2" /\ NetworkJobs(inflight) # {}

\* StartLocal can be taken: the gather has a local fetch left to enter.
StartLocalEnabled == pc = "stage1" /\ ~AllLocalStarted

\* GatherRaises can be taken: every local fetch was entered and one that
\* completed raised past _safe_fetch.
GatherRaisesEnabled == pc = "stage1" /\ AllLocalStarted /\ FailedAt # {}

\* Weak fairness of every step of a running call: the entry of the local
\* fetches, their completions, the raise out of the gather, AfterStage1
\* and the network completions.  Except for the local completions,
\* WF_vars(A) is written out as []<>~ENABLED <<A>>_vars \/ []<><<A>>_vars
\* with the enabling condition above and the effect that tells the step
\* apart: in Stage 1 StartLocal is the only step that changes invoked,
\* GatherRaises and AfterStage1 are the only steps that change pc and
\* are never enabled together, and in Stage 2 NetworkDone is the only
\* step that changes inflight.
Fairness ==
  /\ \/ []<>(~StartLocalEnabled)
     \/ []<><<StartLocalEnabled /\ invoked' # invoked>>_vars
  /\ WF_vars(\E i \in DOMAIN LocalProviders : CompleteLocal(i))
  /\ \/ []<>(~GatherRaisesEnabled)
     \/ []<><<GatherRaisesEnabled /\ pc' # pc>>_vars
  /\ \/ []<>(~AfterStage1Enabled)
     \/ []<><<AfterStage1Enabled /\ pc' # pc>>_vars
  /\ \/ []<>(~NetworkDoneEnabled)
     \/ []<><<NetworkDoneEnabled /\ inflight' # inflight>>_vars

\* The calls the termination property is checked on: every registered
\* provider (providers=None), no provider (providers=[]), or one name.
LiveInit == Init /\ (Len(providersArg) = 1 => Len(providersArg[1]) <= 1)

\* fetch_all is called at most LiveCalls times.
LiveCall == call < LiveCalls /\ Call

LiveNext ==
  \/ LiveCall
  \/ StartLocal
  \/ \E i \in DOMAIN LocalProviders : CompleteLocal(i)
  \/ GatherRaises
  \/ AfterStage1
  \/ \E k \in DOMAIN NetworkProviders : NetworkDone(k)

LiveSpec == LiveInit /\ [][LiveNext]_vars /\ Fairness

\* The n-th call is running.
Running(n) == call = n /\ pc \in {"stage1", "stage2"}

\* A fetch the running call has completed raised an exception that is not
\* an Exception subclass.
BaseExceptionRaised ==
  \E j \in CompletedJobs :
    /\ RawOutcome(ProviderOfJob(j)).kind = "raise"
    /\ RawOutcome(ProviderOfJob(j)).exc.cls \notin ExceptionClasses

\* The stages in the order fetch_all goes through them.
StageRank ==
  [ idle |-> 0, stage1 |-> 1, stage2 |-> 2, returned |-> 3, raised |-> 3 ]

(***************************************************************************)
(* C28  Termination, as first stated.  If every invoked fetch eventually   *)
(* completes (returns or raises), every call of fetch_all eventually       *)
(* returns an AggregatedResult.                                            *)
(***************************************************************************)
C28_AlwaysReturns ==
  \A n \in 1..LiveCalls :
    Running(n) ~> (call = n /\ pc = "returned")

(***************************************************************************)
(* C28  Termination.  If every invoked fetch eventually completes, every   *)
(* call of fetch_all eventually ends: it returns an AggregatedResult,      *)
(* unless a fetch raised an exception that is not an Exception subclass,   *)
(* which ends the call with that exception.  fetch_all never waits on a    *)
(* fetch it has not invoked, and within a call it never goes back to an    *)
(* earlier stage.                                                          *)
(***************************************************************************)
C28_Termination ==
  /\ \A n \in 1..LiveCalls :
       Running(n) ~> (call = n /\ pc \in {"returned", "raised"})
  /\ [](pc = "raised" => BaseExceptionRaised)
  /\ [](inflight \subseteq invoked)
  /\ [][call' = call => StageRank[pc'] >= StageRank[pc]]_vars

\* A call returned after both stages although providers of either stage
\* raised or failed.
C28_Witness ==
  /\ pc = "returned"
  /\ Len(LocalProviders) = 2
  /\ Len(NetworkProviders) = 2
  /\ Cardinality(invoked) = 4
  /\ inflight = {}
  /\ \E j \in invoked : j.kind = "local" /\ Raises(ProviderOfJob(j))
  /\ \E j \in invoked : j.kind = "network" /\ ~Succeeds(ProviderOfJob(j))


(***************************************************************************)
(* fetch_all over test doubles of the MetadataProvider protocol.  Nothing  *)
(* in fetch_all or _safe_fetch compares result.provider with the name of   *)
(* the provider that was fetched, so a double may return a prepared        *)
(* result under its own name, under the name of another registered         *)
(* provider, or under a name the registry does not know.                   *)
(***************************************************************************)
\* The field dicts a prepared result carries.
PreparedFields ==
  { << <<"title", Str(<<"T">>)>> >>,
    << <<"title", Str(<<"T">>)>>, <<"genres", Lst(<<"g">>)>> >>,
    << <<"title", Str(<<>>)>> >>,
    << <<"title", Str(<<"T">>)>>, <<"rating", NaN>> >> }

\* The provider names a double called name puts in its results.
Labels(name) ==
  {name, "private_db", IF name \in {"abs_sidecar", "mediainfo"} THEN "audnex" ELSE "mediainfo"}

\* A successful result with the given fields, each of confidence 1.0.
Prepared(label, fields) ==
  ProviderResultOf(label, TRUE, fields,
                   [f \in { fields[i][1] : i \in DOMAIN fields } |-> DefaultConfidence],
                   NoText)

\* What a local double does: it returns any prepared result or a failure,
\* under any of its labels, or its fetch is cancelled.
LocalDoubles(name) ==
  { ReturnsConfig(Prepared(l, f)) : l \in Labels(name), f \in PreparedFields }
    \cup { ReturnsConfig(Failure(l, "down")) : l \in Labels(name) }
    \cup { RaisesConfig("CancelledError", "stop") }

\* What a network double returns.
NetworkDoubles(name) ==
  { ReturnsConfig(Prepared(name, << <<"title", Str(<<"N">>)>>, <<"genres", Lst(<<"n">>)>> >>)),
    ReturnsConfig(Failure(name, "down")),
    ReturnsConfig(Prepared("mediainfo", << <<"title", Str(<<"N">>)>> >>)) }

DoublesInit ==
  /\ registry = Registry
  /\ updates = 0
  /\ ctx = [ids |-> "asin" :> Asin]
  /\ mergeStrategy \in Strategies
  /\ providersArg \in { <<>>, << <<"mediainfo", "abs_sidecar", "mock">> >> }
  /\ stopOnComplete \in BOOLEAN
  /\ requiredArg \in RequiredArgs(stopOnComplete)
  /\ \E a \in LocalDoubles("abs_sidecar"), b \in LocalDoubles("mediainfo"),
        c \in NetworkDoubles("audnex"), d \in NetworkDoubles("mock") :
       behaviour = ("abs_sidecar" :> a) @@ ("mediainfo" :> b)
                     @@ ("audnex" :> c) @@ ("mock" :> d)
  /\ pc = "idle"
  /\ call = 0
  /\ providerList = <<>>
  /\ stage1 = <<>>
  /\ entered = <<>>
  /\ completed = <<>>
  /\ results = <<>>
  /\ errors = [x \in {} |-> ""]
  /\ invoked = {}
  /\ inflight = {}
  /\ fetchCount = [n \in RegistryNames |-> 0]
  /\ returned = <<>>
  /\ retry = RetryUnused

DoublesSpec == DoublesInit /\ [][Next]_vars

\* The call returned under stop_on_complete=True before every network
\* candidate was fetched.
ReturnedEarly ==
  /\ pc = "returned"
  /\ stopOnComplete
  /\ Cardinality(NetworkJobs(invoked)) < Len(NetworkProviders)

(***************************************************************************)
(* C29  Coverage implies presence.  Whenever a call with                   *)
(* stop_on_complete=True returns without having fetched every network      *)
(* candidate, every effective required field is a key of the returned      *)
(* fields; and on the results a returning call collected, the fields       *)
(* _get_filled_fields counts are exactly the keys _merge produces, also    *)
(* for results whose provider name is not a candidate's.                   *)
(***************************************************************************)
C29_CoverageImpliesPresence ==
  /\ ReturnedEarly => Required(requiredArg) \subseteq DOMAIN Last.value.fields
  /\ (pc = "returned" /\ providerList # <<>>) =>
       GetFilledFields(results, ProviderMap(providerList)) = DOMAIN Last.value.fields


(***************************************************************************)
(* C30  Provenance soundness.  In every value fetch_all returns, fields    *)
(* and sources have the same keys, and for every key f the provider        *)
(* sources[f] names was fetched in this call, its fetch returned a         *)
(* successful result, it is not a key of errors, and the result it         *)
(* returned holds the value fields[f] for f.                               *)
(***************************************************************************)
\* The provider called name was fetched in this call, and a fetch of it
\* returned a successful result that holds value for f.
Supplied(name, f, value) ==
  \E j \in CompletedJobs :
    /\ ProviderOfJob(j).name = name
    /\ Succeeds(ProviderOfJob(j))
    /\ \E i \in DOMAIN RawOutcome(ProviderOfJob(j)).result.fields :
         RawOutcome(ProviderOfJob(j)).result.fields[i] = <<f, value>>

C30_ProvenanceSoundness ==
  pc = "returned" =>
    /\ DOMAIN Last.value.sources = DOMAIN Last.value.fields
    /\ \A f \in DOMAIN Last.value.fields :
         /\ Supplied(Last.value.sources[f], f, Last.value.fields[f])
         /\ Last.value.sources[f] \notin DOMAIN Last.value.errors

====
